---- MODULE Spec2Model ----
(***************************************************************************)
(* A model of the peer-to-peer synchronization engine of Floresta:         *)
(*   - the address manager (crates/floresta-wire/src/p2p_wire/             *)
(*     address_man.rs), and                                                *)
(*   - the SwiftSync node context (crates/floresta-wire/src/p2p_wire/node/ *)
(*     swift_sync_ctx.rs).                                                 *)
(* The two parts have their own specifications (SpecAM, Spec, ...) over    *)
(* one set of variables; a specification leaves the other part's           *)
(* variables at their initial values.                                      *)
(***************************************************************************)
EXTENDS Integers, Sequences, FiniteSets, TLC

VARIABLES
    \* ---- AddressMan (address_man.rs, struct AddressMan) ----
    addresses,               \* HashMap<usize, LocalAddress>
    good_addresses,          \* Vec<usize>
    good_peers_by_service,   \* HashMap<ServiceFlags, Vec<usize>>
    peers_by_service,        \* HashMap<ServiceFlags, Vec<usize>>
    max_size,                \* usize
    reachable_networks,      \* HashSet<ReachableNetworks>
    now,                     \* SystemTime::now() in unix seconds
    ret,                     \* what the last address-manager call returned
    calls,                   \* how many calls were made so far
    \* ---- UtreexoNode<Chain, SwiftSync> (swift_sync_ctx.rs) ----
    world,                   \* the best chain's blocks as the peers serve them
    hints,                   \* Hints: stop_height and the unspent indexes per height
    blocks,                  \* self.blocks: HashMap<BlockHash, InflightBlock>
    inflight,                \* self.inflight, the InflightRequests::Blocks entries
    last_block_request,      \* self.last_block_request
    context,                 \* self.context: SwiftSync {agg, salt, supply, abort_height}
    banscore,                \* the banscore of each peer
    peers,                   \* self.peers: the connected peers
    stale,                   \* last_tip_update is more than ASSUME_STALE seconds ago
    chain,                   \* self.chain
    node_rx,                 \* the node's channel of NodeNotifications
    workers,                 \* the spawn_blocking tasks that have not reported yet
    wire,                    \* GETDATA entries the peers have still to answer
    shutdown,                \* the peers that were sent NodeRequest::Shutdown
    kill_signal,             \* self.kill_signal
    pc,                      \* where the node is: "run", "exited", "done"
    applied,                 \* the heights whose results were accumulated
    disorder,                \* a result was applied after one of a greater height
    reapplied,               \* a height's result was accumulated twice
    final_check,             \* whether handle_stop_height_reached has run
    overrun,                 \* more than MAX_PARALLEL_WORKERS blocks were processing
    log,                     \* the errors try_and_log! has logged
    budget,                  \* how many environment faults may still happen
    ticker                   \* the maintenance interval: flips at every tick

amvars == <<addresses, good_addresses, good_peers_by_service, peers_by_service,
            max_size, reachable_networks, now, ret, calls>>

ssvars == <<world, hints, blocks, inflight, last_block_request, context, banscore,
            peers, stale, chain, node_rx, workers, wire, shutdown, kill_signal, pc,
            applied, disorder, reapplied, final_check, overrun, log, budget, ticker>>

vars == <<amvars, ssvars>>

-----------------------------------------------------------------------------
(* Bounds of the address-manager model *)

\* ids are drawn from 1..MaxIds (rand::random::<usize>() in the code)
MaxIds == 2
\* AddressMan::new(Some(n), ..) with n up to MaxSize
MaxSize == 2
\* the index lists are Vecs that can grow without limit; a call that would make
\* one longer than this is not taken
MaxListLen == 3
\* the sequences of address-manager calls explored have at most this length
MaxCalls == 3

Ids == 1..MaxIds

-----------------------------------------------------------------------------
(* Program constants *)

RETRY_TIME == 600
ASSUME_STALE == 86400
MAX_ADDRESSES == 50000
\* for _ in 0..10 in get_address_to_connect
CONNECT_ATTEMPTS == 10

-----------------------------------------------------------------------------
(* ServiceFlags: a bit set; has(x) is (self | x) == self *)

NONE == {}
NETWORK == {"NETWORK"}
\* ServiceFlags::WITNESS (WITNESS alone is a reserved word of TLA+)
NODE_WITNESS == {"WITNESS"}
NETWORK_LIMITED == {"NETWORK_LIMITED"}
COMPACT_FILTERS == {"COMPACT_FILTERS"}
UTREEXO == {"UTREEXO"}
\* ServiceFlags::from(1 << 25)
UTREEXO_FILTER == {"UTREEXO_FILTER"}

has(services, flags) == flags \subseteq services

\* the keys the code ever inserts into the two by-service maps
ServiceKeys == {UTREEXO, UTREEXO_FILTER, NONE, COMPACT_FILTERS}

\* HashMap::get: an absent key and an empty Vec behave alike in every reader
Lookup(m, k) == IF k \in DOMAIN m THEN m[k] ELSE << >>

-----------------------------------------------------------------------------
(* AddressState *)

NeverTried == [tag |-> "NeverTried", t |-> 0]
Connected == [tag |-> "Connected", t |-> 0]
Tried(t) == [tag |-> "Tried", t |-> t]
Banned(t) == [tag |-> "Banned", t |-> t]
Failed(t) == [tag |-> "Failed", t |-> t]

None == [none |-> TRUE]

-----------------------------------------------------------------------------
(* AddrV2 values used as inputs. An address is kept by its name; AddrV2(name)
   is the value: its variant and its octets. *)

AddrV2(name) ==
    CASE name = "V4a" -> [fam |-> "Ipv4", octets |-> <<12, 146, 182, 45>>]
      [] name = "V4b" -> [fam |-> "Ipv4", octets |-> <<8, 104, 121, 145>>]
      [] name = "V4loop" -> [fam |-> "Ipv4", octets |-> <<127, 0, 0, 1>>]
      [] name = "V4priv" -> [fam |-> "Ipv4", octets |-> <<192, 168, 1, 14>>]
      [] name = "V6ula" ->
           [fam |-> "Ipv6",
            octets |-> <<253, 58, 159, 43, 76, 16, 26, 43, 0, 0, 0, 0, 0, 0, 0, 1>>]
      [] name = "V6a" ->
           [fam |-> "Ipv6",
            octets |-> <<103, 219, 55, 39, 241, 69, 92, 89,
                         113, 143, 211, 185, 110, 86, 217, 55>>]
      [] name = "Onion" -> [fam |-> "TorV3", octets |-> <<137, 108, 106, 113>>]
      [] name = "CjdnsIn" ->
           [fam |-> "Cjdns",
            octets |-> <<252, 0, 0, 0, 0, 0, 0, 0, 0, 0, 0, 0, 0, 0, 0, 1>>]
      [] name = "CjdnsOut" ->
           [fam |-> "Cjdns",
            octets |-> <<253, 0, 0, 0, 0, 0, 0, 0, 0, 0, 0, 0, 0, 0, 0, 1>>]
      [] name = "OnionV2" -> [fam |-> "TorV2", octets |-> <<33, 94, 18, 201>>]
      [] name = "I2p" -> [fam |-> "I2p", octets |-> <<77, 12, 250, 6>>]
      [] name = "Unknown" -> [fam |-> "Unknown", net |-> 9, octets |-> <<1, 2, 3>>]

is_routable_ipv4(o) ==
    IF o[1] = 0 THEN FALSE
    ELSE IF \/ o[1] = 127                                      \* is_loopback
            \/ (o[1] = 255 /\ o[2] = 255 /\ o[3] = 255 /\ o[4] = 255) \* is_broadcast
            \/ o[1] = 10                                       \* is_private
            \/ (o[1] = 172 /\ o[2] >= 16 /\ o[2] <= 31)
            \/ (o[1] = 192 /\ o[2] = 168)
         THEN FALSE
    ELSE IF o[1] = 198 /\ (o[2] = 18 \/ o[2] = 19) THEN FALSE
    ELSE IF o[1] = 169 /\ o[2] = 254 THEN FALSE                \* is_link_local
    ELSE IF o[1] = 100 /\ (o[2] >= 64 /\ o[2] <= 127) THEN FALSE
    ELSE IF \/ (o[1] = 192 /\ o[2] = 0 /\ o[3] = 2)            \* is_documentation
            \/ (o[1] = 198 /\ o[2] = 51 /\ o[3] = 100)
            \/ (o[1] = 203 /\ o[2] = 0 /\ o[3] = 113)
         THEN FALSE
    ELSE TRUE

is_routable_ipv6(o) ==
    IF \/ (\A i \in 1..16 : o[i] = 0)                          \* is_unspecified
       \/ ((\A i \in 1..15 : o[i] = 0) /\ o[16] = 1)           \* is_loopback
       \/ (o[1] = 252 \/ o[1] = 253)                           \* is_unique_local
       THEN FALSE
    ELSE IF o[1] = 32 /\ o[2] = 1 /\ o[3] = 0 /\ (o[4] >= 16 /\ o[4] <= 31) THEN FALSE
    ELSE IF o[1] = 254 /\ (o[2] >= 128 /\ o[2] <= 191) THEN FALSE
    ELSE IF o[1] = 32 /\ o[2] = 1 /\ o[3] = 0 /\ (o[4] >= 32 /\ o[4] <= 47) THEN FALSE
    ELSE TRUE

is_routable(address) ==
    CASE AddrV2(address.address).fam = "Ipv4" -> is_routable_ipv4(AddrV2(address.address).octets)
      [] AddrV2(address.address).fam = "Ipv6" -> is_routable_ipv6(AddrV2(address.address).octets)
      [] AddrV2(address.address).fam = "Cjdns" -> AddrV2(address.address).octets[1] = 252
      [] OTHER -> TRUE

is_good_peer(address) ==
    IF ~is_routable(address) THEN FALSE
    ELSE address.state.tag = "Connected" \/ address.state.tag = "Tried"

is_net_reachable(reach, address) ==
    CASE AddrV2(address.address).fam = "Ipv4" -> "IPv4" \in reach
      [] AddrV2(address.address).fam = "Ipv6" -> "IPv6" \in reach
      [] AddrV2(address.address).fam = "TorV3" -> "TorV3" \in reach
      [] AddrV2(address.address).fam = "I2p" -> "I2P" \in reach
      [] OTHER -> FALSE

-----------------------------------------------------------------------------
(* Vec and HashMap helpers *)

contains(s, x) == \E i \in 1..Len(s) : s[i] = x
retain(s, x) == SelectSeq(s, LAMBDA y : y # x)
push(s, x) == Append(s, x)
remove(m, k) == [i \in (DOMAIN m) \ {k} |-> m[i]]
retain_all(m, x) == [k \in DOMAIN m |-> retain(m[k], x)]

\* the AddressMan as one value, for the operators below
AM == [addresses |-> addresses,
       good_addresses |-> good_addresses,
       good_peers_by_service |-> good_peers_by_service,
       peers_by_service |-> peers_by_service]

-----------------------------------------------------------------------------
(* AddressMan operations, as functions from AddressMan to AddressMan *)

push_if_has_service(am, address, service) ==
    IF has(address.services, service)
    THEN [am EXCEPT
            !.good_peers_by_service[service] =
                IF is_good_peer(address) THEN push(@, address.id) ELSE @,
            !.peers_by_service[service] = push(@, address.id)]
    ELSE am

\* the loop body of push_addresses without its routability checks
push_one_unfiltered(am, reach, address) ==
    IF (~has(address.services, NODE_WITNESS)) \/ (~has(address.services, NETWORK_LIMITED))
    THEN am
    ELSE IF ~is_net_reachable(reach, address) THEN am
    ELSE IF \E i \in DOMAIN am.addresses : am.addresses[i].address = address.address
    THEN am
    ELSE IF address.id \in DOMAIN am.addresses THEN am
    ELSE
        LET a1 == [am EXCEPT
                     !.addresses = (address.id :> address) @@ @,
                     !.good_addresses =
                         IF is_good_peer(address) THEN push(@, address.id) ELSE @]
            a2 == push_if_has_service(a1, address, UTREEXO)
            a3 == push_if_has_service(a2, address, NONE)
        IN  push_if_has_service(a3, address, COMPACT_FILTERS)

\* one iteration of the loop of push_addresses
push_one(am, reach, address) ==
    IF (~has(address.services, NODE_WITNESS)) \/ (~has(address.services, NETWORK_LIMITED))
    THEN am
    ELSE IF AddrV2(address.address).fam = "Ipv4" /\ ~is_routable_ipv4(AddrV2(address.address).octets)
    THEN am
    ELSE IF AddrV2(address.address).fam = "Ipv6" /\ ~is_routable_ipv6(AddrV2(address.address).octets)
    THEN am
    ELSE IF ~is_net_reachable(reach, address) THEN am
    ELSE IF ~is_routable(address) THEN am
    ELSE IF \E i \in DOMAIN am.addresses : am.addresses[i].address = address.address
    THEN am
    ELSE IF address.id \in DOMAIN am.addresses THEN am
    ELSE
        LET a1 == [am EXCEPT
                     !.addresses = (address.id :> address) @@ @,
                     !.good_addresses =
                         IF is_good_peer(address) THEN push(@, address.id) ELSE @]
            a2 == push_if_has_service(a1, address, UTREEXO)
            a3 == push_if_has_service(a2, address, NONE)
        IN  push_if_has_service(a3, address, COMPACT_FILTERS)

RECURSIVE push_loop(_, _, _)
push_loop(am, reach, list) ==
    IF list = << >> THEN am
    ELSE push_loop(push_one(am, reach, Head(list)), reach, Tail(list))

\* The orders in which prune_addresses can see the table: oldest_ids is the
\* HashMap's iteration order (any order) put through a stable sort by
\* last_connected.
SortedOrders(addrs) ==
    LET n == Cardinality(DOMAIN addrs)
    IN  {s \in [1..n -> DOMAIN addrs] :
            /\ \A i, j \in 1..n : i # j => s[i] # s[j]
            /\ \A i, j \in 1..n :
                   i < j => addrs[s[i]].last_connected <= addrs[s[j]].last_connected}

evict(am, id) ==
    [addresses |-> remove(am.addresses, id),
     good_addresses |-> retain(am.good_addresses, id),
     good_peers_by_service |-> retain_all(am.good_peers_by_service, id),
     peers_by_service |-> retain_all(am.peers_by_service, id)]

RECURSIVE evict_all(_, _)
evict_all(am, ids) ==
    IF ids = << >> THEN am ELSE evict_all(evict(am, Head(ids)), Tail(ids))

\* prune_addresses were it to evict the most recently connected addresses
prune_addresses_newest(am, size, oldest_ids) ==
    LET len == Cardinality(DOMAIN am.addresses)
        excess == IF len > size THEN len - size ELSE 0
    IN  IF excess = 0 THEN am
        ELSE evict_all(am, SubSeq(oldest_ids, len - excess + 1, len))

\* prune_addresses were it to leave one address more than max_size
prune_addresses_lenient(am, size, oldest_ids) ==
    LET len == Cardinality(DOMAIN am.addresses)
        excess == IF len > size + 1 THEN len - (size + 1) ELSE 0
    IN  IF excess = 0 THEN am
        ELSE evict_all(am, SubSeq(oldest_ids, 1, excess))

prune_addresses(am, size, oldest_ids) ==
    LET len == Cardinality(DOMAIN am.addresses)
        excess == IF len > size THEN len - size ELSE 0
    IN  IF excess = 0 THEN am
        ELSE evict_all(am, SubSeq(oldest_ids, 1, excess))

update_set_state(am, idx, state, t) ==
    LET stored == idx \in DOMAIN am.addresses
        a1 ==
          CASE state.tag = "Banned" ->
                 [am EXCEPT !.good_addresses = retain(@, idx)]
            [] state.tag = "Tried" ->
                 LET g == [am EXCEPT !.good_addresses =
                                IF ~contains(@, idx) THEN push(@, idx) ELSE @]
                 IN  IF stored
                     THEN LET address == am.addresses[idx]
                              b1 == push_if_has_service(g, address, UTREEXO)
                              b2 == push_if_has_service(b1, address, UTREEXO_FILTER)
                              b3 == push_if_has_service(b2, address, NONE)
                          IN  push_if_has_service(b3, address, COMPACT_FILTERS)
                     ELSE g
            [] state.tag = "NeverTried" ->
                 [am EXCEPT !.good_addresses = retain(@, idx)]
            [] state.tag = "Connected" ->
                 [am EXCEPT
                    !.addresses = IF stored
                                  THEN [@ EXCEPT ![idx].last_connected = t]
                                  ELSE @,
                    !.good_addresses = IF ~contains(@, idx) THEN push(@, idx) ELSE @]
            [] state.tag = "Failed" ->
                 [am EXCEPT
                    !.good_addresses = retain(@, idx),
                    !.good_peers_by_service = retain_all(@, idx)]
    IN  IF stored THEN [a1 EXCEPT !.addresses[idx].state = state] ELSE a1

add_peer_to_service(am, idx, service) ==
    IF contains(am.peers_by_service[service], idx) THEN am
    ELSE [am EXCEPT !.peers_by_service[service] = push(@, idx)]

remove_peer_from_service(am, idx, service) ==
    [am EXCEPT !.peers_by_service[service] = retain(@, idx)]

update_peer_for_service(am, id, service) ==
    IF id \notin DOMAIN am.addresses THEN am
    ELSE IF has(am.addresses[id].services, service)
         THEN add_peer_to_service(am, id, service)
         ELSE remove_peer_from_service(am, id, service)

update_peer_services_buckets(am, idx) ==
    update_peer_for_service(update_peer_for_service(am, idx, UTREEXO),
                            idx, COMPACT_FILTERS)

\* update_set_service_flag were it to remove the entry and leave the indexes
update_set_service_flag_entry_only(am, idx, flags) ==
    IF (~has(flags, NETWORK)) \/ (~has(flags, NODE_WITNESS))
    THEN [am EXCEPT !.addresses = remove(@, idx)]
    ELSE LET a1 == IF idx \in DOMAIN am.addresses
                   THEN [am EXCEPT !.addresses[idx].services = flags]
                   ELSE am
         IN  update_peer_services_buckets(a1, idx)

update_set_service_flag(am, idx, flags) ==
    IF (~has(flags, NETWORK)) \/ (~has(flags, NODE_WITNESS))
    THEN evict(am, idx)
    ELSE LET a1 == IF idx \in DOMAIN am.addresses
                   THEN [am EXCEPT !.addresses[idx].services = flags]
                   ELSE am
         IN  update_peer_services_buckets(a1, idx)

\* rearrange_buckets were a Tried address to go stale after RETRY_TIME
rearrange_one_hasty(address, t) ==
    CASE address.state.tag = "Banned" ->
           IF address.state.t < t THEN [address EXCEPT !.state = NeverTried]
           ELSE address
      [] address.state.tag = "Tried" ->
           IF address.state.t + RETRY_TIME < t
           THEN [address EXCEPT !.state = NeverTried] ELSE address
      [] address.state.tag = "Failed" ->
           IF address.state.t + RETRY_TIME < t
           THEN [address EXCEPT !.state = NeverTried] ELSE address
      [] OTHER -> address

rearrange_one(address, t) ==
    CASE address.state.tag = "Banned" ->
           IF address.state.t < t THEN [address EXCEPT !.state = NeverTried]
           ELSE address
      [] address.state.tag = "Tried" ->
           IF address.state.t + ASSUME_STALE < t
           THEN [address EXCEPT !.state = NeverTried] ELSE address
      [] address.state.tag = "Failed" ->
           IF address.state.t + RETRY_TIME < t
           THEN [address EXCEPT !.state = NeverTried] ELSE address
      [] OTHER -> address

rearrange_buckets(am, t) ==
    [am EXCEPT !.addresses = [i \in DOMAIN @ |-> rearrange_one(@[i], t)]]

(* get_address_to_connect: every random draw is a nondeterministic choice, so
   the call has a set of outcomes [val, am]. *)

get_address_by_service(am, service) ==
    LET ids == Lookup(am.good_peers_by_service, service)
    IN  {[id |-> ids[i], peer |-> am.addresses[ids[i]]] :
            i \in {j \in 1..Len(ids) : ids[j] \in DOMAIN am.addresses}}

\* get_address_by_service returns None: no list, an empty list, or the drawn id
\* is not stored
get_address_by_service_none(am, service) ==
    LET ids == Lookup(am.good_peers_by_service, service)
    IN  ids = << >> \/ \E i \in 1..Len(ids) : ids[i] \notin DOMAIN am.addresses

try_with_service(am, service, t) ==
    LET ids == Lookup(am.peers_by_service, service)
        keep(x) ==
            IF x \in DOMAIN am.addresses
            THEN LET st == am.addresses[x].state
                 IN  IF st.tag = "Failed" /\ (st.t + RETRY_TIME) < t THEN TRUE
                     ELSE st.tag = "Tried" \/ st.tag = "NeverTried"
            ELSE FALSE
    IN  {[id |-> ids[i], peer |-> am.addresses[ids[i]]] :
            i \in {j \in 1..Len(ids) : keep(ids[j])}}

get_random_address(am, service, t) ==
    IF DOMAIN am.addresses = {} THEN {}
    ELSE IF try_with_service(am, service, t) # {} THEN try_with_service(am, service, t)
    ELSE {[id |-> i, peer |-> am.addresses[i]] : i \in DOMAIN am.addresses}

\* one pass of the loop body, from `a`: the set of [done, val, am]
attempt(a, required_service, t) ==
    LET draws == get_address_by_service(a, required_service)
                 \cup (IF get_address_by_service_none(a, required_service)
                       THEN get_random_address(a, required_service, t) ELSE {})
        step(d) ==
            CASE d.peer.state.tag \in {"NeverTried", "Tried"} ->
                   [done |-> TRUE, val |-> d, am |-> a]
              [] d.peer.state.tag = "Connected" ->
                   [done |-> FALSE, val |-> None, am |-> a]
              [] OTHER ->
                   IF d.peer.state.t + RETRY_TIME < t
                   THEN [done |-> TRUE, val |-> d, am |-> a]
                   ELSE [done |-> FALSE, val |-> None,
                         am |-> [a EXCEPT
                            !.good_peers_by_service =
                                [k \in DOMAIN @ |->
                                    IF k = required_service THEN retain(@[k], d.id)
                                    ELSE @[k]],
                            !.good_addresses = retain(@, d.id)]]
    IN  IF draws = {}
        THEN {[done |-> TRUE, val |-> None, am |-> a]}    \* the `?` after or_else
        ELSE {step(d) : d \in draws}

RECURSIVE attempts(_, _, _, _)
attempts(S, n, required_service, t) ==
    IF S = {} THEN {}
    ELSE IF n = 0 THEN {[val |-> None, am |-> a] : a \in S}
    ELSE LET steps == UNION {attempt(a, required_service, t) : a \in S}
         IN  {[val |-> s.val, am |-> s.am] : s \in {x \in steps : x.done}}
             \cup attempts({s.am : s \in {x \in steps : ~x.done}}, n - 1,
                           required_service, t)

\* get_address_to_connect were its feeler branch to return whatever it drew
get_address_to_connect_any_feeler(am, required_service, feeler, t) ==
    IF DOMAIN am.addresses = {} THEN {[val |-> None, am |-> am]}
    ELSE IF feeler
    THEN {[val |-> [id |-> i, peer |-> am.addresses[i]], am |-> am] :
             i \in DOMAIN am.addresses}
    ELSE attempts({am}, CONNECT_ATTEMPTS, required_service, t)

get_address_to_connect(am, required_service, feeler, t) ==
    IF DOMAIN am.addresses = {} THEN {[val |-> None, am |-> am]}
    ELSE IF feeler
    THEN {[val |-> IF am.addresses[i].state.tag \in {"Banned", "Connected"}
                   THEN None ELSE [id |-> i, peer |-> am.addresses[i]],
           am |-> am] : i \in DOMAIN am.addresses}
    ELSE attempts({am}, CONNECT_ATTEMPTS, required_service, t)

-----------------------------------------------------------------------------
(* The address manager's specification: any sequence of calls *)

Times == {1000, 2000, 100000}

ReachableConfigs == {{"IPv4", "IPv6", "TorV3", "I2P", "CJDNS"}, {"IPv4", "TorV3"}}

Basic == NETWORK \cup NODE_WITNESS \cup NETWORK_LIMITED

\* what a peer may advertise in its version message
VersionServices ==
    {NETWORK \cup NODE_WITNESS \cup UTREEXO,
     NETWORK \cup NODE_WITNESS \cup COMPACT_FILTERS,
     NODE_WITNESS \cup UTREEXO,
     NETWORK \cup COMPACT_FILTERS}

\* the states a caller passes at time t
StatesAt(t) == {NeverTried, Connected, Tried(t), Banned(t), Failed(t)}

\* the candidates handed to push_addresses at time t, but for their id
Shapes(t) ==
    {[address |-> "V4a", last_connected |-> 0, state |-> Tried(t),
      services |-> Basic \cup UTREEXO \cup COMPACT_FILTERS],
     [address |-> "V4b", last_connected |-> t, state |-> NeverTried, services |-> Basic],
     [address |-> "Onion", last_connected |-> 0, state |-> Tried(t),
      services |-> Basic \cup UTREEXO_FILTER],
     [address |-> "V6a", last_connected |-> t, state |-> NeverTried,
      services |-> Basic \cup UTREEXO],
     [address |-> "V4loop", last_connected |-> t, state |-> NeverTried, services |-> Basic],
     [address |-> "V6ula", last_connected |-> t, state |-> Tried(t), services |-> Basic],
     [address |-> "CjdnsIn", last_connected |-> t, state |-> NeverTried, services |-> Basic],
     [address |-> "CjdnsOut", last_connected |-> t, state |-> NeverTried, services |-> Basic],
     [address |-> "V4b", last_connected |-> t, state |-> NeverTried,
      services |-> NETWORK \cup NODE_WITNESS],
     [address |-> "V4b", last_connected |-> t, state |-> NeverTried,
      services |-> NETWORK \cup NETWORK_LIMITED]}

Candidates(t) ==
    {[address |-> c.address, last_connected |-> c.last_connected, state |-> c.state,
      services |-> c.services, id |-> i] : c \in Shapes(t), i \in Ids}

Bounded(am) ==
    /\ Len(am.good_addresses) <= MaxListLen
    /\ \A k \in ServiceKeys :
          /\ Len(am.good_peers_by_service[k]) <= MaxListLen
          /\ Len(am.peers_by_service[k]) <= MaxListLen

SetAM(am, r) ==
    /\ Bounded(am)
    /\ calls < MaxCalls
    /\ calls' = calls + 1
    /\ addresses' = am.addresses
    /\ good_addresses' = am.good_addresses
    /\ good_peers_by_service' = am.good_peers_by_service
    /\ peers_by_service' = am.peers_by_service
    /\ ret' = r
    /\ UNCHANGED <<max_size, reachable_networks>>
    /\ UNCHANGED ssvars

\* `ret` is the last call: its name, its arguments and what it returned
NoRet == [op |-> "none"]

\* no node runs: the address manager is used on its own
NoNode ==
    /\ world = << >> /\ hints = << >> /\ blocks = << >> /\ inflight = << >>
    /\ last_block_request = 0 /\ context = << >> /\ banscore = << >>
    /\ peers = {} /\ stale = FALSE /\ chain = << >> /\ node_rx = << >>
    /\ workers = {} /\ wire = {} /\ shutdown = {} /\ kill_signal = FALSE
    /\ pc = "none" /\ applied = {} /\ disorder = FALSE /\ reapplied = FALSE
    /\ final_check = FALSE /\ overrun = FALSE /\ log = {}
    /\ budget = 0 /\ ticker = FALSE

\* the max_size argument of AddressMan::new: None ({}) or Some(n) ({n})
SizeArgs == {{}} \cup {{n} : n \in 1..MaxSize}

\* max_size.unwrap_or(MAX_ADDRESSES)
new_max_size(o) == IF o = {} THEN MAX_ADDRESSES ELSE CHOOSE n \in o : TRUE

InitAM ==
    /\ addresses = << >>
    /\ good_addresses = << >>
    /\ good_peers_by_service = [k \in ServiceKeys |-> << >>]
    /\ peers_by_service = [k \in ServiceKeys |-> << >>]
    /\ max_size \in {new_max_size(o) : o \in SizeArgs}
    /\ reachable_networks \in ReachableConfigs
    /\ now = 1000
    /\ ret = NoRet
    /\ calls = 0
    /\ NoNode

PushAddresses ==
    \E c \in Candidates(now) :
        \E pushed \in {push_loop(AM, reachable_networks, <<c>>)} :
            \E oldest_ids \in SortedOrders(pushed.addresses) :
                \E am \in {prune_addresses(pushed, max_size, oldest_ids)} :
                    /\ SetAM(am, [op |-> "push_addresses", addresses |-> <<c>>,
                                  pruned |-> DOMAIN pushed.addresses
                                                 \ DOMAIN am.addresses])
                    /\ UNCHANGED now

UpdateSetState ==
    \E idx \in Ids, state \in StatesAt(now) :
        \E am \in {update_set_state(AM, idx, state, now)} :
            /\ SetAM(am, [op |-> "update_set_state", idx |-> idx, state |-> state])
            /\ UNCHANGED now

UpdateSetServiceFlag ==
    \E idx \in Ids, flags \in VersionServices :
        \E am \in {update_set_service_flag(AM, idx, flags)} :
            /\ SetAM(am, [op |-> "update_set_service_flag", idx |-> idx,
                          flags |-> flags,
                          removed |-> idx \in DOMAIN addresses
                                      /\ idx \notin DOMAIN am.addresses])
            /\ UNCHANGED now

RearrangeBuckets ==
    \E am \in {rearrange_buckets(AM, now)} :
        /\ SetAM(am, [op |-> "rearrange_buckets", at |-> now,
                      demoted |-> {i \in DOMAIN addresses :
                                      am.addresses[i].state # addresses[i].state}])
        /\ UNCHANGED now

GetAddressToConnect ==
    \E required_service \in {NONE, UTREEXO}, feeler \in BOOLEAN :
        \E out \in get_address_to_connect(AM, required_service, feeler, now) :
            /\ SetAM(out.am, [op |-> "get_address_to_connect", feeler |-> feeler,
                              val |-> out.val, at |-> now])
            /\ UNCHANGED now

\* the clock moves on
TimePasses ==
    /\ \E t \in Times : t > now /\ now' = t
    /\ ret' = NoRet
    /\ UNCHANGED <<addresses, good_addresses, good_peers_by_service, peers_by_service,
                   max_size, reachable_networks, calls>>
    /\ UNCHANGED ssvars

NextAM ==
    \/ PushAddresses
    \/ UpdateSetState
    \/ UpdateSetServiceFlag
    \/ RearrangeBuckets
    \/ GetAddressToConnect
    \/ TimePasses

SpecAM == InitAM /\ [][NextAM]_vars

-----------------------------------------------------------------------------
(* Claims about the address manager *)

GoodPredicate(id) ==
    /\ id \in DOMAIN addresses
    /\ addresses[id].state.tag \in {"Tried", "Connected"}
    /\ is_routable(addresses[id])

\* C8: after any sequence of push_addresses, update_set_state,
\* update_set_service_flag, rearrange_buckets and get_address_to_connect calls,
\* every id in good_addresses refers to a stored address whose state is Tried or
\* Connected and which is routable.
C8_GoodAddressesAreGood ==
    \A i \in 1..Len(good_addresses) : GoodPredicate(good_addresses[i])

\* C9: after any sequence of address-manager operations, every id in
\* good_peers_by_service[S] refers to a stored address that advertises S, is
\* routable, and is in state Tried or Connected.
C9_GoodPeersByServiceAreGood ==
    \A S \in ServiceKeys :
        \A i \in 1..Len(good_peers_by_service[S]) :
            LET id == good_peers_by_service[S][i]
            IN  GoodPredicate(id) /\ has(addresses[id].services, S)

\* C10: after any sequence of address-manager operations, for every service S
\* and every id i in peers_by_service[S], the stored address i currently
\* advertises S, including after update_set_service_flag replaced its services.
C10_PeersByServiceAdvertise ==
    \A S \in ServiceKeys :
        \A i \in 1..Len(peers_by_service[S]) :
            LET id == peers_by_service[S][i]
            IN  id \in DOMAIN addresses /\ has(addresses[id].services, S)

\* C11: after every push_addresses call the number of stored addresses is at
\* most max_size, which is MAX_ADDRESSES (50 000) when AddressMan::new was given
\* no size.
C11_SizeWithinMax ==
    /\ max_size \in {new_max_size(o) : o \in SizeArgs}
    /\ new_max_size({}) = 50000
    /\ ret.op = "push_addresses" => Cardinality(DOMAIN addresses) <= max_size

\* a push into a full table has evicted an address
C11_Witness ==
    /\ ret.op = "push_addresses"
    /\ ret.pruned # {}
    /\ Cardinality(DOMAIN addresses) = max_size

Members(s) == {s[k] : k \in 1..Len(s)}

\* the id is in no table and no index
AbsentEverywhere(am, i) ==
    /\ i \notin DOMAIN am.addresses
    /\ i \notin Members(am.good_addresses)
    /\ \A S \in DOMAIN am.peers_by_service : i \notin Members(am.peers_by_service[S])
    /\ \A S \in DOMAIN am.good_peers_by_service :
          i \notin Members(am.good_peers_by_service[S])

\* the entries and the index memberships of the ids other than i are the same
\* in a and b
OthersUnchanged(a, b, i) ==
    /\ DOMAIN b.addresses \ {i} = DOMAIN a.addresses \ {i}
    /\ \A j \in DOMAIN a.addresses \ {i} : b.addresses[j] = a.addresses[j]
    /\ Members(b.good_addresses) \ {i} = Members(a.good_addresses) \ {i}
    /\ DOMAIN b.peers_by_service = DOMAIN a.peers_by_service
    /\ DOMAIN b.good_peers_by_service = DOMAIN a.good_peers_by_service
    /\ \A S \in DOMAIN a.peers_by_service :
          Members(b.peers_by_service[S]) \ {i} = Members(a.peers_by_service[S]) \ {i}
    /\ \A S \in DOMAIN a.good_peers_by_service :
          Members(b.good_peers_by_service[S]) \ {i}
              = Members(a.good_peers_by_service[S]) \ {i}

\* C12: after update_set_service_flag(i, flags) where flags lacks NETWORK or
\* lacks WITNESS, id i is absent from addresses, from good_addresses and from
\* every list of peers_by_service and good_peers_by_service, and the entries and
\* index memberships of all other ids are unchanged.
C12_DroppedFromEveryIndex ==
    [][(/\ ret'.op = "update_set_service_flag"
        /\ (~has(ret'.flags, NETWORK) \/ ~has(ret'.flags, NODE_WITNESS)))
       => /\ AbsentEverywhere(AM', ret'.idx)
          /\ OthersUnchanged(AM, AM', ret'.idx)]_vars

\* a stored id was dropped by a version without WITNESS while another id stayed
\* in the good lists
C12_Witness ==
    /\ ret.op = "update_set_service_flag"
    /\ ~has(ret.flags, NODE_WITNESS)
    /\ ret.removed
    /\ \E j \in DOMAIN addresses :
          j # ret.idx /\ j \in Members(good_peers_by_service[NONE])

\* the candidate is routable, of a reachable family, and neither its address
\* nor its id is in the table
Insertable(am, reach, c) ==
    /\ is_routable(c)
    /\ is_net_reachable(reach, c)
    /\ \A j \in DOMAIN am.addresses : am.addresses[j].address # c.address
    /\ c.id \notin DOMAIN am.addresses

\* C13: push_addresses rejects a candidate on service grounds only when it
\* advertises neither WITNESS nor NETWORK_LIMITED: a candidate that is routable,
\* of a reachable family, not already present, and advertises at least one of
\* the two is inserted (and from then on subject to pruning).
C13_OneServiceSuffices ==
    [][ret'.op = "push_addresses" =>
         \A k \in 1..Len(ret'.addresses) :
            LET c == ret'.addresses[k]
            IN  (/\ Insertable(AM, reachable_networks, c)
                 /\ (has(c.services, NODE_WITNESS) \/ has(c.services, NETWORK_LIMITED)))
                => (c.id \in DOMAIN addresses' \/ c.id \in ret'.pruned)]_vars

\* C14: push_addresses never stores an address that is non-routable, whose
\* family is not in the configured reachable set, that lacks WITNESS, or whose
\* address equals one already stored; every stored address satisfies
\* is_routable.
C14_StoredAreAcceptable ==
    \A i \in DOMAIN addresses :
        /\ is_routable(addresses[i])
        /\ is_net_reachable(reachable_networks, addresses[i])
        /\ has(addresses[i].services, NODE_WITNESS)
        /\ \A j \in DOMAIN addresses : j # i => addresses[j].address # addresses[i].address

\* the last push offered a unique-local IPv6 address with the required services
\* to a table that reaches IPv6 and holds an address
C14_Witness ==
    /\ ret.op = "push_addresses"
    /\ ret.addresses[1].address = "V6ula"
    /\ has(ret.addresses[1].services, NODE_WITNESS \cup NETWORK_LIMITED)
    /\ "IPv6" \in reachable_networks
    /\ DOMAIN addresses # {}
    /\ ret.addresses[1].id \notin DOMAIN addresses

\* C15: get_address_to_connect never hands out an address we are connected to
\* or that is still banned. In feeler mode it never returns an entry in state
\* Banned or Connected; in regular mode it never returns a Connected entry, nor
\* a Banned(t) or Failed(t) entry unless t + RETRY_TIME < now; with an empty
\* table it returns None.
C15_NoConnectedNoBanned ==
    ret.op = "get_address_to_connect" =>
        /\ DOMAIN addresses = {} => ret.val = None
        /\ ret.val # None =>
              LET st == ret.val.peer.state
              IN  IF ret.feeler
                  THEN st.tag \notin {"Banned", "Connected"}
                  ELSE /\ st.tag # "Connected"
                       /\ st.tag \in {"Banned", "Failed"} => st.t + RETRY_TIME < ret.at

\* a regular call found only an address whose ban is recent, and returned None
C15_Witness ==
    /\ ret.op = "get_address_to_connect"
    /\ ~ret.feeler
    /\ ret.val = None
    /\ DOMAIN addresses # {}
    /\ \A j \in DOMAIN addresses :
          /\ addresses[j].state.tag = "Banned"
          /\ ~(addresses[j].state.t + RETRY_TIME < ret.at)

\* C16: after update_set_state(id, s) with s Banned, Failed or NeverTried, id is
\* absent from good_addresses and from good_peers_by_service[S] for every
\* service S, and the stored state of id is s.
C16_DemotedLeavesGoodLists ==
    (/\ ret.op = "update_set_state"
     /\ ret.state.tag \in {"Banned", "Failed", "NeverTried"})
    => /\ ret.idx \notin Members(good_addresses)
       /\ \A S \in DOMAIN good_peers_by_service :
             ret.idx \notin Members(good_peers_by_service[S])
       /\ ret.idx \in DOMAIN addresses => addresses[ret.idx].state = ret.state

\* C17: after update_set_state(id, s) with s Tried or Connected on a stored
\* routable address, id is in good_addresses and in good_peers_by_service[S]
\* for every probed service S (UTREEXO, NONE, COMPACT_FILTERS) that the address
\* advertises, whatever the address's previous state was.
C17_PromotedJoinsGoodLists ==
    (/\ ret.op = "update_set_state"
     /\ ret.state.tag \in {"Tried", "Connected"}
     /\ ret.idx \in DOMAIN addresses
     /\ is_routable(addresses[ret.idx]))
    => /\ ret.idx \in Members(good_addresses)
       /\ \A S \in {UTREEXO, NONE, COMPACT_FILTERS} :
             has(addresses[ret.idx].services, S)
                 => ret.idx \in Members(good_peers_by_service[S])

\* C18: when the table holds more than max_size entries, prune_addresses evicts
\* exactly the excess, choosing entries with the smallest last_connected (no
\* surviving entry has a last_connected strictly smaller than an evicted one),
\* and every evicted id is removed from good_addresses and from every
\* peers_by_service and good_peers_by_service list.
C18_PruneEvictsOldestExcess ==
    [][ret'.op = "push_addresses" =>
         LET pushed == push_loop(AM, reachable_networks, ret'.addresses)
             len == Cardinality(DOMAIN pushed.addresses)
         IN  len > max_size =>
                /\ Cardinality(ret'.pruned) = len - max_size
                /\ DOMAIN addresses' = DOMAIN pushed.addresses \ ret'.pruned
                /\ \A e \in ret'.pruned :
                      /\ \A k \in DOMAIN addresses' :
                            ~(pushed.addresses[k].last_connected
                                  < pushed.addresses[e].last_connected)
                      /\ AbsentEverywhere(AM', e)
                      /\ OthersUnchanged(pushed, AM', e)]_vars

\* the address just pushed overflowed the table and was itself the oldest: it
\* was evicted and the strictly newer one stayed
C18_Witness ==
    /\ ret.op = "push_addresses"
    /\ ret.pruned = {ret.addresses[1].id}
    /\ Cardinality(DOMAIN addresses) = max_size
    /\ \A k \in DOMAIN addresses :
          addresses[k].last_connected > ret.addresses[1].last_connected

\* the state has outlived its horizon at time t
Expired(state, t) ==
    \/ state.tag = "Failed" /\ state.t + 600 < t
    \/ state.tag = "Tried" /\ state.t + 86400 < t
    \/ state.tag = "Banned" /\ state.t < t

\* C19: rearrange_buckets run at time now changes an entry's state to
\* NeverTried exactly when the entry is Failed(t) with t + 600 < now, Tried(t)
\* with t + 86 400 < now, or Banned(t) whose time t has passed; Connected and
\* NeverTried entries and all unexpired entries keep their state, and no entry
\* is added to or removed from the table.
C19_RearrangeDemotesExpired ==
    [][ret'.op = "rearrange_buckets" =>
         /\ DOMAIN addresses' = DOMAIN addresses
         /\ \A i \in DOMAIN addresses :
               addresses'[i] =
                   IF Expired(addresses[i].state, ret'.at)
                   THEN [addresses[i] EXCEPT !.state = NeverTried]
                   ELSE addresses[i]]_vars

\* one run demoted an expired entry and kept a Tried one that is not yet stale
C19_Witness ==
    /\ ret.op = "rearrange_buckets"
    /\ ret.demoted # {}
    /\ \E k \in DOMAIN addresses \ ret.demoted :
          addresses[k].state.tag = "Tried"

-----------------------------------------------------------------------------
(* SwiftSync: bounds and program constants *)

\* hints.stop_height of the sessions explored
StopHeight == 3
\* node_rx is unbounded; a sender waits while it holds this many notifications
MaxQueue == 2
\* how many request timeouts, stale periods and kill signals (together) the
\* environment may cause in one session
MaxFaults == 1
\* the iteration orders of self.blocks are all explored up to this many blocks
MaxPermuted == 3
\* hints.stop_height of the sessions that fill the worker pool
PumpStopHeight == 10
\* hints.stop_height of the sessions that fill the request window
LongStopHeight == 206

MAX_PARALLEL_WORKERS == 6
MAX_CONCURRENT_GETDATA == 40
\* "40 * 5 = 200 blocks in parallel": the default NodeContext::BLOCKS_PER_GETDATA
BLOCKS_PER_GETDATA == 5
\* NodeContext::BAN_TIME, a day
BAN_TIME == 86400
\* the banscore at which a peer is banned
MAX_BANSCORE == 100

PeerIds == {1, 2}

Some(x) == {x}
NoneOpt == {}
unwrap(o) == CHOOSE x \in o : TRUE

Ok(n) == [ok |-> TRUE, e |-> "", n |-> n]
Err(n, e) == [ok |-> FALSE, e |-> e, n |-> n]

RECURSIVE SumOver(_, _)
SumOver(f, S) ==
    IF S = {} THEN 0
    ELSE LET x == CHOOSE y \in S : TRUE IN f[x] + SumOver(f, S \ {x})

RECURSIVE Perms(_)
Perms(S) ==
    IF S = {} THEN {<< >>}
    ELSE UNION {{<<x>> \o q : q \in Perms(S \ {x})} : x \in S}

-----------------------------------------------------------------------------
(* The best chain: its blocks, the outputs they create and spend.
   Block h holds a coinbase, whose output is (h, 0); when txs[h] = 2 it holds a
   second transaction, which spends every output of block h - 1 and creates the
   output (h, 1). *)

SUBSIDY == 50
\* the aggregator's words are 64 bits wide; 16 bits here
AggModulus == 65536
\* a block hash of the best chain is told from a height by this offset
HashBase == 100

Outputs(w, h) == IF w.txs[h] = 1 THEN {0} ELSE {0, 1}

RECURSIVE BlockValue(_, _)
BlockValue(w, h) ==
    IF h = 0 THEN 0
    ELSE SUBSIDY + (IF h = w.overpaid THEN w.extra ELSE 0)
         + (IF w.txs[h] = 2 THEN BlockValue(w, h - 1) ELSE 0)

Value(w, h, i) ==
    IF i = 0 THEN SUBSIDY + (IF h = w.overpaid THEN w.extra ELSE 0)
    ELSE BlockValue(w, h - 1)

Spent(w, h) ==
    IF w.txs[h] = 2 /\ h > 1 THEN {<<h - 1, i>> : i \in Outputs(w, h - 1)} ELSE {}

\* the outputs of block h that are unspent at stop_height
UnspentAt(w, h) ==
    IF h < w.stop_height /\ w.txs[h + 1] = 2 THEN {} ELSE Outputs(w, h)

\* SipHash(salt, outpoint, ..): the tag of output (h, i)
Tag(salt, h, i) == (salt * (2 * h + i + 1)) % AggModulus

txdata_len(w, hash) == w.txs[hash - HashBase]

\* SwiftSyncAgg: a commutative group
agg_add(a, b) == (a + b) % AggModulus
agg_sub(a, b) == (a + AggModulus - (b % AggModulus)) % AggModulus
is_zero(a) == a = 0

\* Consensus::process_block_swiftsync: the block's aggregator and unspent
\* amount, or a validation error
process_block_swiftsync(w, block_height, unspent_indexes, salt) ==
    IF block_height \in w.tampered
    THEN [ok |-> FALSE, e |-> w.error]
    ELSE LET created == Outputs(w, block_height) \ unspent_indexes
             kept == Outputs(w, block_height) \cap unspent_indexes
             plus == SumOver([i \in created |-> Tag(salt, block_height, i)], created)
             minus == SumOver([o \in Spent(w, block_height) |-> Tag(salt, o[1], o[2])],
                              Spent(w, block_height))
         IN  [ok |-> TRUE,
              agg |-> agg_sub(agg_add(0, plus), minus),
              amount |-> SumOver([i \in kept |-> Value(w, block_height, i)], kept)]

\* Consensus::max_supply_at_height: the sum of the subsidies up to that height
max_supply_at_height(h) == SUBSIDY * (h + 1)

\* What Hints::get_indexes returns in a session: the session keeps the decoded
\* table of the hints file (the file itself is modelled in the section on the
\* hints file)
hinted_indexes(h, height) == h.map[height]

-----------------------------------------------------------------------------
(* The chain (self.chain): the header chain up to chain.tip, the validation
   index, the in-IBD flag *)

get_block_hash(c, height) ==
    IF height <= c.tip THEN Some(HashBase + height) ELSE NoneOpt

get_block_height(c, hash) ==
    IF hash > HashBase /\ hash - HashBase <= c.tip THEN Some(hash - HashBase) ELSE NoneOpt

get_validation_index(c) == c.validation_index

\* the block and the headers above it are discarded
invalidate_block(c, hash) ==
    IF get_block_height(c, hash) = NoneOpt THEN c
    ELSE [c EXCEPT !.tip = unwrap(get_block_height(c, hash)) - 1]

mark_chain_as_assumed(c, hash) ==
    [c EXCEPT !.validation_index = unwrap(get_block_height(c, hash)),
              !.assumed = Some(hash)]

toggle_ibd(c, is_ibd) == [c EXCEPT !.ibd = is_ibd]

-----------------------------------------------------------------------------
(* The node as one value, for the operators below *)

Node == [blocks |-> blocks, inflight |-> inflight,
         last_block_request |-> last_block_request, context |-> context,
         banscore |-> banscore, peers |-> peers, stale |-> stale, chain |-> chain,
         am |-> AM, workers |-> workers, wire |-> wire, shutdown |-> shutdown,
         applied |-> applied, disorder |-> disorder, reapplied |-> reapplied,
         final_check |-> final_check, overrun |-> overrun, log |-> log]

\* try_and_log!: the error is logged and the handler goes on
try_and_log(r) == IF r.ok THEN r.n ELSE [r.n EXCEPT !.log = @ \cup {r.e}]

\* the address id of a peer (LocalPeerView::address_id)
address_id(peer) == peer

(* UtreexoNode methods shared by all contexts *)

unprocessed_blocks(n) == Cardinality(DOMAIN n.inflight) + Cardinality(DOMAIN n.blocks)

can_request_more_blocks(n) ==
    Cardinality(DOMAIN n.inflight) + Cardinality(DOMAIN n.blocks)
        < MAX_CONCURRENT_GETDATA * BLOCKS_PER_GETDATA

\* the requests a peer has been sent and has not answered
load(n, peer) == Cardinality({h \in DOMAIN n.inflight : n.inflight[h].peer = peer})

\* the least-loaded peer; `pref` breaks ties
least_loaded(n, pref) ==
    LET ready == {q \in n.peers \ n.shutdown :
                     \A r \in n.peers \ n.shutdown : load(n, q) <= load(n, r)}
    IN  pref[CHOOSE i \in 1..Len(pref) :
                 /\ pref[i] \in ready
                 /\ \A j \in 1..(i - 1) : pref[j] \notin ready]

RECURSIVE send_getdata(_, _, _)
send_getdata(n, peer, hashes) ==
    IF hashes = << >> THEN n
    ELSE send_getdata(
            [n EXCEPT !.inflight = (Head(hashes) :> [peer |-> peer, expired |-> FALSE]) @@ @,
                      !.wire = @ \cup {<<peer, Head(hashes)>>}],
            peer, Tail(hashes))

RECURSIVE request_blocks(_, _, _)
request_blocks(n, hashes, pref) ==
    IF hashes = << >> THEN Ok(n)
    ELSE IF n.peers \ n.shutdown = {} THEN Err(n, "NoPeersAvailable")
    ELSE LET k == IF Len(hashes) < BLOCKS_PER_GETDATA THEN Len(hashes)
                  ELSE BLOCKS_PER_GETDATA
             sent == send_getdata(n, least_loaded(n, pref), SubSeq(hashes, 1, k))
         IN  request_blocks(sent, SubSeq(hashes, k + 1, Len(hashes)), pref)

increase_banscore(n, peer, factor) ==
    LET n1 == [n EXCEPT !.banscore[peer] = @ + factor]
    IN  IF n1.banscore[peer] >= MAX_BANSCORE
        THEN [n1 EXCEPT
                !.am = update_set_state(@, address_id(peer), Banned(now + BAN_TIME), now),
                !.shutdown = @ \cup {peer}]
        ELSE n1

RECURSIVE check_for_timeout(_, _)
\* check_for_timeout were it to drop the request that timed out
RECURSIVE check_for_timeout_forgetful(_, _)
check_for_timeout_forgetful(n, pref) ==
    LET timed_out == {h \in DOMAIN n.inflight : n.inflight[h].expired}
    IN  IF timed_out = {} THEN Ok(n)
        ELSE LET h == CHOOSE x \in timed_out : \A y \in timed_out : x <= y
                 n1 == increase_banscore(n, n.inflight[h].peer, 2)
                 n2 == [n1 EXCEPT !.inflight = remove(@, h)]
             IN  check_for_timeout_forgetful(n2, pref)

check_for_timeout(n, pref) ==
    LET timed_out == {h \in DOMAIN n.inflight : n.inflight[h].expired}
    IN  IF timed_out = {} THEN Ok(n)
        ELSE LET h == CHOOSE x \in timed_out : \A y \in timed_out : x <= y
                 n1 == increase_banscore(n, n.inflight[h].peer, 2)
                 n2 == [n1 EXCEPT !.inflight = remove(@, h)]
                 r == request_blocks(n2, <<h>>, pref)
             IN  IF r.ok THEN check_for_timeout(r.n, pref) ELSE r

-----------------------------------------------------------------------------
(* UtreexoNode<Chain, SwiftSync> *)

\* an abort that the run loop never sees
was_aborted_never(n) == FALSE

\* self.context.abort_height.is_some()
was_aborted(n) == n.context.abort_height # NoneOpt

\* the loop of get_blocks_to_download: the hashes collected from `last` on
RECURSIVE collect_blocks(_, _, _, _)
collect_blocks(c, last, stop_height, k) ==
    IF k = 0 THEN [blocks |-> << >>, last |-> last]
    ELSE IF last + 1 > stop_height THEN [blocks |-> << >>, last |-> last]
    ELSE IF get_block_hash(c, last + 1) = NoneOpt THEN [blocks |-> << >>, last |-> last]
    ELSE LET rest == collect_blocks(c, last + 1, stop_height, k - 1)
         IN  [blocks |-> <<unwrap(get_block_hash(c, last + 1))>> \o rest.blocks,
              last |-> rest.last]

\* get_blocks_to_download without its check of can_request_more_blocks
get_blocks_to_download_unchecked(n, stop_height, pref) ==
    IF was_aborted(n) THEN n
    ELSE LET prev_last_request == n.last_block_request
             got == collect_blocks(n.chain, n.last_block_request, stop_height,
                                   BLOCKS_PER_GETDATA)
             r == request_blocks([n EXCEPT !.last_block_request = got.last],
                                 got.blocks, pref)
         IN  IF r.ok THEN r.n
             ELSE [r.n EXCEPT !.last_block_request = prev_last_request,
                              !.log = @ \cup {r.e}]

\* get_blocks_to_download without its check of was_aborted
get_blocks_to_download_despite_abort(n, stop_height, pref) ==
    IF ~can_request_more_blocks(n) THEN n
    ELSE LET prev_last_request == n.last_block_request
             got == collect_blocks(n.chain, n.last_block_request, stop_height,
                                   BLOCKS_PER_GETDATA)
             r == request_blocks([n EXCEPT !.last_block_request = got.last],
                                 got.blocks, pref)
         IN  IF r.ok THEN r.n
             ELSE [r.n EXCEPT !.last_block_request = prev_last_request,
                              !.log = @ \cup {r.e}]

\* get_blocks_to_download without the rollback after a failed request
get_blocks_to_download_no_rollback(n, stop_height, pref) ==
    IF (~can_request_more_blocks(n)) \/ was_aborted(n) THEN n
    ELSE LET got == collect_blocks(n.chain, n.last_block_request, stop_height,
                                   BLOCKS_PER_GETDATA)
             r == request_blocks([n EXCEPT !.last_block_request = got.last],
                                 got.blocks, pref)
         IN  IF r.ok THEN r.n
             ELSE [r.n EXCEPT !.log = @ \cup {r.e}]

\* get_blocks_to_download were it to request nothing
get_blocks_to_download_idle(n, stop_height, pref) == n

get_blocks_to_download(n, stop_height, pref) ==
    IF (~can_request_more_blocks(n)) \/ was_aborted(n) THEN n
    ELSE LET prev_last_request == n.last_block_request
             got == collect_blocks(n.chain, n.last_block_request, stop_height,
                                   BLOCKS_PER_GETDATA)
             r == request_blocks([n EXCEPT !.last_block_request = got.last],
                                 got.blocks, pref)
         IN  IF r.ok THEN r.n
             ELSE [r.n EXCEPT !.last_block_request = prev_last_request,
                              !.log = @ \cup {r.e}]

\* the errors after which handle_invalid_block invalidates the block
InvalidatingErrors ==
    {"InvalidCoinbase", "UtxoNotFound", "ScriptValidationError", "NullPrevOut",
     "EmptyInputs", "EmptyOutputs", "ScriptError", "BlockTooBig", "NotEnoughPow",
     "TooManyCoins", "BadMerkleRoot", "BadWitnessCommitment", "NotEnoughMoney",
     "FirstTxIsNotCoinbase", "BadCoinbaseOutValue", "EmptyBlock", "BadBip34",
     "BIP94TimeWarp", "UnspendableUTXO", "CoinbaseNotMatured"}

OrphanErrors == {"BlockExtendsAnOrphanChain", "BlockDoesntExtendTip"}

handle_invalid_block(n, e, block_hash, peer) ==
    IF e \in OrphanErrors THEN Ok(n)
    ELSE LET n1 == IF e \in InvalidatingErrors
                   THEN [n EXCEPT !.chain = invalidate_block(@, block_hash)]
                   ELSE n
             n2 == IF peer \in n1.peers
                   THEN [n1 EXCEPT !.am = update_set_state(@, address_id(peer),
                                                          Banned(BAN_TIME), now)]
                   ELSE n1
         IN  IF peer \in n2.peers
             THEN Err([n2 EXCEPT !.shutdown = @ \cup {peer}], "PeerMisbehaving")
             ELSE Err(n2, "PeerNotFound")

\* handle_valid_worker_block were it to commit the block to the chain
handle_valid_worker_block_commits(n, block_hash, height) ==
    [n EXCEPT !.stale = FALSE, !.chain.validation_index = height]

\* metrics, and last_tip_update = Instant::now()
handle_valid_worker_block(n, block_hash, height) == [n EXCEPT !.stale = FALSE]

\* an accumulation that is not commutative
accumulate_shifting(ctx, agg_re, unspent_amount) ==
    [ctx EXCEPT !.agg = agg_add(agg_add(@, @), agg_re), !.supply = @ + unspent_amount]

\* self.context.agg += agg_re; self.context.supply += unspent_amount
accumulate(ctx, agg_re, unspent_amount) ==
    [ctx EXCEPT !.agg = agg_add(@, agg_re), !.supply = @ + unspent_amount]

(* pump_swiftsync, start_processing_swiftsync and handle_worker_notification call
   each other. `ord` is the order in which self.blocks iterates; no block is
   inserted while a pump runs, so the nested calls see the same order. *)

\* self.blocks.values().filter(|b| b.processing_since.is_some()).count()
processing_count(n) == Cardinality({x \in DOMAIN n.blocks : n.blocks[x].processing})

RECURSIVE pump_swiftsync(_, _, _, _)
RECURSIVE pump_loop(_, _, _, _, _)
RECURSIVE start_processing_swiftsync(_, _, _, _, _, _)
RECURSIVE handle_worker_notification(_, _, _, _, _, _, _)

\* pump_swiftsync without .take(free)
pump_swiftsync_no_take(n, w, h, ord) ==
    LET processing == processing_count(n)
        free == IF MAX_PARALLEL_WORKERS > processing
                THEN MAX_PARALLEL_WORKERS - processing ELSE 0
        queued == SelectSeq(ord, LAMBDA x : x \in DOMAIN n.blocks /\ ~n.blocks[x].processing)
    IN  IF free = 0 THEN Ok(n) ELSE pump_loop(n, w, h, ord, queued)

pump_swiftsync(n, w, h, ord) ==
    LET processing == processing_count(n)
        free == IF MAX_PARALLEL_WORKERS > processing
                THEN MAX_PARALLEL_WORKERS - processing ELSE 0
        queued == SelectSeq(ord, LAMBDA x : x \in DOMAIN n.blocks /\ ~n.blocks[x].processing)
        to_process == SubSeq(queued, 1, IF free < Len(queued) THEN free ELSE Len(queued))
    IN  IF free = 0 THEN Ok(n) ELSE pump_loop(n, w, h, ord, to_process)

pump_loop(n, w, h, ord, to_process) ==
    IF to_process = << >> THEN Ok(n)
    ELSE LET hash == Head(to_process)
             height == get_block_height(n.chain, hash)
         IN  IF height = NoneOpt THEN Err(n, "OrphanOrInvalidBlock")
             ELSE LET r == start_processing_swiftsync(n, w, h, ord, hash, unwrap(height))
                  IN  IF r.ok THEN pump_loop(r.n, w, h, ord, Tail(to_process)) ELSE r

start_processing_swiftsync(n, w, h, ord, block_hash, block_height) ==
    IF block_hash \notin DOMAIN n.blocks THEN Err(n, "BlockNotFound")
    ELSE IF n.blocks[block_hash].processing THEN Ok(n)
    ELSE LET unspent_indexes == hinted_indexes(h, block_height)
             started == [n EXCEPT !.blocks[block_hash].processing = TRUE]
             n1 == [started EXCEPT
                      !.overrun = @ \/ processing_count(started) > MAX_PARALLEL_WORKERS]
         IN  IF txdata_len(w, block_hash) = 1
             THEN handle_worker_notification(
                      n1, w, h, ord,
                      process_block_swiftsync(w, block_height, unspent_indexes,
                                              n.context.salt),
                      block_hash, block_height)
             ELSE Ok([n1 EXCEPT !.workers = @ \cup
                         {[result |-> process_block_swiftsync(w, block_height,
                                          unspent_indexes, n.context.salt),
                           block_hash |-> block_hash, height |-> block_height]}])

handle_worker_notification(n, w, h, ord, result, block_hash, height) ==
    IF block_hash \notin DOMAIN n.blocks THEN Err(n, "BlockNotFound")
    ELSE LET block == n.blocks[block_hash]
             p == pump_swiftsync([n EXCEPT !.blocks = remove(@, block_hash)], w, h, ord)
         IN  IF ~p.ok THEN p
             ELSE IF ~result.ok
             THEN handle_invalid_block(
                      [p.n EXCEPT !.context.abort_height = Some(height)],
                      result.e, block_hash, block.peer)
             ELSE Ok(handle_valid_worker_block(
                      [p.n EXCEPT
                         !.context = accumulate(@, result.agg, result.amount),
                         !.applied = @ \cup {height},
                         !.disorder = @ \/ \E x \in p.n.applied : x > height,
                         !.reapplied = @ \/ height \in p.n.applied],
                      block_hash, height))

\* handle_stop_height_reached without the supply check
handle_stop_height_reached_agg_only(n, stop_height) ==
    IF ~is_zero(n.context.agg)
    THEN [n EXCEPT !.context.abort_height = Some(stop_height)]
    ELSE [n EXCEPT !.chain = toggle_ibd(mark_chain_as_assumed(
                                 @, unwrap(get_block_hash(n.chain, stop_height))), FALSE)]

handle_stop_height_reached(n, stop_height) ==
    LET final_agg == n.context.agg
        final_supply == n.context.supply
    IN  IF ~is_zero(final_agg)
        THEN [n EXCEPT !.context.abort_height = Some(stop_height)]
        ELSE IF final_supply > max_supply_at_height(stop_height)
        THEN [n EXCEPT !.context.abort_height = Some(stop_height)]
        ELSE LET tip_hash == unwrap(get_block_hash(n.chain, stop_height))
             IN  [n EXCEPT !.chain = toggle_ibd(mark_chain_as_assumed(@, tip_hash), FALSE)]

\* handle_message were it to take a requested block off the inflight map
\* without putting it in the buffer
handle_message_dropping(n, w, h, msg, ord, pref) ==
    IF msg.kind = "Block"
    THEN IF msg.hash \in DOMAIN n.blocks THEN Ok(n)
         ELSE IF msg.hash \notin DOMAIN n.inflight
         THEN Ok(increase_banscore(n, msg.peer, 5))
         ELSE LET n1 == [n EXCEPT !.inflight = remove(@, msg.hash)]
                  p == pump_swiftsync(n1, w, h, ord)
              IN  IF ~p.ok THEN p
                  ELSE Ok(get_blocks_to_download(p.n, h.stop_height, pref))
    ELSE handle_worker_notification(n, w, h, ord, msg.result, msg.block_hash, msg.height)

\* handle_message were it to buffer every block it is sent
handle_message_rebuffering(n, w, h, msg, ord, pref) ==
    IF msg.kind = "Block"
    THEN LET n1 == [n EXCEPT
                      !.inflight = remove(@, msg.hash),
                      !.blocks = (msg.hash :> [peer |-> msg.peer,
                                               processing |-> FALSE]) @@ @]
             p == pump_swiftsync(n1, w, h, ord)
         IN  IF ~p.ok THEN p
             ELSE Ok(get_blocks_to_download(p.n, h.stop_height, pref))
    ELSE handle_worker_notification(n, w, h, ord, msg.result, msg.block_hash, msg.height)

\* handle_message were it to buffer a block nobody asked for
handle_message_unsolicited(n, w, h, msg, ord, pref) ==
    IF msg.kind = "Block"
    THEN IF msg.hash \in DOMAIN n.blocks THEN Ok(n)
         ELSE LET n1 == [n EXCEPT
                           !.inflight = remove(@, msg.hash),
                           !.blocks = (msg.hash :> [peer |-> msg.peer,
                                                    processing |-> FALSE]) @@ @]
                  p == pump_swiftsync(n1, w, h, ord)
              IN  IF ~p.ok THEN p
                  ELSE Ok(get_blocks_to_download(p.n, h.stop_height, pref))
    ELSE handle_worker_notification(n, w, h, ord, msg.result, msg.block_hash, msg.height)

handle_message(n, w, h, msg, ord, pref) ==
    IF msg.kind = "Block"
    THEN IF msg.hash \in DOMAIN n.blocks THEN Ok(n)
         ELSE IF msg.hash \notin DOMAIN n.inflight
         THEN Ok(increase_banscore(n, msg.peer, 5))
         ELSE LET n1 == [n EXCEPT
                           !.inflight = remove(@, msg.hash),
                           !.blocks = (msg.hash :> [peer |-> msg.peer,
                                                    processing |-> FALSE]) @@ @]
                  p == pump_swiftsync(n1, w, h, ord)
              IN  IF ~p.ok THEN p
                  ELSE Ok(get_blocks_to_download(p.n, h.stop_height, pref))
    ELSE handle_worker_notification(n, w, h, ord, msg.result, msg.block_hash, msg.height)

\* maintenance_tick were it to leave out check_for_timeout
maintenance_jobs_no_timeout(n, w, h, ord, pref) ==
    IF n.stale THEN [n EXCEPT !.stale = FALSE]
    ELSE get_blocks_to_download(try_and_log(pump_swiftsync(n, w, h, ord)),
                                h.stop_height, pref)

\* the body of maintenance_tick after its three early returns
maintenance_jobs(n, w, h, ord, pref) ==
    LET n1 == try_and_log(check_for_timeout(n, pref))
    IN  IF n1.stale THEN [n1 EXCEPT !.stale = FALSE]
        ELSE get_blocks_to_download(try_and_log(pump_swiftsync(n1, w, h, ord)),
                                    h.stop_height, pref)

-----------------------------------------------------------------------------
(* The sessions explored *)

AllSingle(s) == [x \in 1..s |-> 1]
Mixed(s) == [x \in 1..s |-> IF x = 1 THEN 1 ELSE 2]
Alternate(s) == [x \in 1..s |-> IF x % 2 = 0 THEN 2 ELSE 1]

BaseWorld(s, txs) ==
    [stop_height |-> s, tip |-> s, txs |-> txs, tampered |-> {}, overpaid |-> 0,
     extra |-> 0, hint_flip |-> {}, delivery |-> << >>, faults |-> MaxFaults,
     error |-> "BadMerkleRoot"]

\* honest chains with exact hints
GoodWorlds(s) == {BaseWorld(s, AllSingle(s)), BaseWorld(s, Mixed(s)),
                  BaseWorld(s, Alternate(s))}

\* a block of the chain was tampered with
TamperedWorlds(s) ==
    {[BaseWorld(s, Mixed(s)) EXCEPT !.tampered = {x}] : x \in {1, 2}}

\* the hints file is wrong about output 0 of one block
BadHintWorlds(s) ==
    {[BaseWorld(s, Alternate(s)) EXCEPT !.hint_flip = {1}],
     [BaseWorld(s, Mixed(s)) EXCEPT !.hint_flip = {s}]}

\* the coinbase of block 1 pays more than the subsidy
OverpaidWorlds(s) ==
    {[BaseWorld(s, Mixed(s)) EXCEPT !.overpaid = 1, !.extra = x] :
        x \in {SUBSIDY, SUBSIDY + 1}}

\* the header chain ends below stop_height
ShortWorlds(s) == {[BaseWorld(s, AllSingle(s)) EXCEPT !.tip = s - 1]}

\* Sessions that fill the worker pool. The peers answer in the order
\* `delivery`; nothing times out and nobody kills the node.
Ascending(s) == [x \in 1..s |-> x]

\* block 1, then the tampered block s - 1 and block s, then the blocks between
TamperedFirst(s) ==
    [x \in 1..s |-> IF x = 1 THEN 1 ELSE IF x = 2 THEN s - 1 ELSE IF x = 3 THEN s
                     ELSE x - 2]

\* blocks 2..7 hold two transactions, the others one
SixBusy(s) == [x \in 1..s |-> IF x >= 2 /\ x <= 7 THEN 2 ELSE 1]

PumpWorlds(s) ==
    {[BaseWorld(s, Mixed(s)) EXCEPT !.delivery = Ascending(s), !.faults = 0],
     [BaseWorld(s, SixBusy(s)) EXCEPT !.delivery = Ascending(s), !.faults = 0],
     [BaseWorld(s, Mixed(s)) EXCEPT !.tampered = {s - 1},
                                    !.delivery = TamperedFirst(s), !.faults = 0]}

\* A chain longer than the request window, whose peer answers in order. Blocks 2
\* and 3 hold two transactions and go to the workers.
TwoBusy(s) == [x \in 1..s |-> IF x = 2 \/ x = 3 THEN 2 ELSE 1]

LongWorlds(s) ==
    {[BaseWorld(s, TwoBusy(s)) EXCEPT !.delivery = Ascending(s), !.faults = 0]}

\* the sessions whose outcome is followed to the end of the run
FairWorlds(s) == {BaseWorld(s, Mixed(s))} \cup TamperedWorlds(s)

Worlds(s) == GoodWorlds(s) \cup TamperedWorlds(s) \cup BadHintWorlds(s)
             \cup OverpaidWorlds(s) \cup ShortWorlds(s)

\* the hints file of a world
HintsOf(w) ==
    [stop_height |-> w.stop_height,
     map |-> [x \in 1..w.stop_height |->
                IF x \in w.hint_flip
                THEN (UnspentAt(w, x) \ {0}) \cup ({0} \ UnspentAt(w, x))
                ELSE UnspentAt(w, x)]]

Salts == {3}

\* the peers' addresses, as the address manager holds them once they are connected
PeerAddress(p) ==
    [address |-> IF p = 1 THEN "V4a" ELSE "V4b", last_connected |-> 0,
     state |-> NeverTried, services |-> Basic \cup UTREEXO, id |-> address_id(p)]

EmptyAM ==
    [addresses |-> << >>, good_addresses |-> << >>,
     good_peers_by_service |-> [k \in ServiceKeys |-> << >>],
     peers_by_service |-> [k \in ServiceKeys |-> << >>]]

ConnectedAM ==
    update_set_state(
        update_set_state(
            push_loop(EmptyAM, {"IPv4"}, <<PeerAddress(1), PeerAddress(2)>>),
            1, Connected, 1000),
        2, Connected, 1000)

-----------------------------------------------------------------------------
(* The SwiftSync session: run() and its environment *)

\* a session of the worlds W with the peers P connected
InitOf(W, P) ==
    /\ world \in W
    /\ hints = HintsOf(world)
    /\ blocks = << >>
    /\ inflight = << >>
    /\ last_block_request = 0
    /\ \E salt \in Salts :
          context = [agg |-> 0, salt |-> salt, supply |-> 0, abort_height |-> NoneOpt]
    /\ banscore = [p \in PeerIds |-> 0]
    /\ peers = P
    /\ stale = FALSE
    /\ chain = [tip |-> world.tip, validation_index |-> 0, assumed |-> NoneOpt,
                ibd |-> TRUE]
    /\ node_rx = << >>
    /\ workers = {}
    /\ wire = {}
    /\ shutdown = {}
    /\ kill_signal = FALSE
    /\ pc = "run"
    /\ applied = {}
    /\ disorder = FALSE
    /\ reapplied = FALSE
    /\ final_check = FALSE
    /\ overrun = FALSE
    /\ log = {}
    /\ budget = world.faults
    /\ ticker = FALSE
    /\ addresses = ConnectedAM.addresses
    /\ good_addresses = ConnectedAM.good_addresses
    /\ good_peers_by_service = ConnectedAM.good_peers_by_service
    /\ peers_by_service = ConnectedAM.peers_by_service
    /\ max_size = MAX_ADDRESSES
    /\ reachable_networks = {"IPv4"}
    /\ now = 1000
    /\ ret = NoRet
    /\ calls = 0

InitIn(W) == InitOf(W, PeerIds)

Init == InitIn(Worlds(StopHeight))

\* the node's fields after a handler
SetNode(n) ==
    /\ blocks' = n.blocks
    /\ inflight' = n.inflight
    /\ last_block_request' = n.last_block_request
    /\ context' = n.context
    /\ banscore' = n.banscore
    /\ peers' = n.peers
    /\ stale' = n.stale
    /\ chain' = n.chain
    /\ workers' = n.workers
    /\ wire' = n.wire
    /\ shutdown' = n.shutdown
    /\ applied' = n.applied
    /\ disorder' = n.disorder
    /\ reapplied' = n.reapplied
    /\ final_check' = n.final_check
    /\ overrun' = n.overrun
    /\ log' = n.log
    /\ addresses' = n.am.addresses
    /\ good_addresses' = n.am.good_addresses
    /\ good_peers_by_service' = n.am.good_peers_by_service
    /\ peers_by_service' = n.am.peers_by_service
    /\ UNCHANGED <<world, hints, max_size, reachable_networks, now, ret, calls>>

Queued == {x \in DOMAIN blocks : ~blocks[x].processing}

RECURSIVE Sorted(_)
Sorted(S) ==
    IF S = {} THEN << >>
    ELSE LET x == CHOOSE y \in S : \A z \in S : y <= z IN <<x>> \o Sorted(S \ {x})

Reversed(q) == [i \in 1..Len(q) |-> q[Len(q) + 1 - i]]

\* The orders in which self.blocks may iterate over the blocks S: any order; for
\* more than MaxPermuted blocks only the two sorted ones are explored.
IterationOrders(S) ==
    IF Cardinality(S) <= MaxPermuted THEN Perms(S)
    ELSE {Sorted(S), Reversed(Sorted(S))}

\* the same condition without the wait for the unprocessed blocks
reached_stop_height_early(n, h) == n.last_block_request = h.stop_height

\* the condition of maintenance_tick under which the session is finished
reached_stop_height(n, h) ==
    n.last_block_request = h.stop_height /\ unprocessed_blocks(n) = 0

\* ticker.tick() => self.maintenance_tick(&mut hints)
\* maintenance_tick were it not to read the kill signal
Tick_deaf ==
    /\ pc = "run"
    /\ ticker' = ~ticker
    /\ UNCHANGED <<node_rx, kill_signal, budget>>
    /\ IF was_aborted(Node)
       THEN pc' = "exited" /\ SetNode(Node)
       ELSE IF reached_stop_height(Node, hints)
       THEN /\ pc' = "exited"
            /\ SetNode([handle_stop_height_reached(Node, hints.stop_height)
                           EXCEPT !.final_check = TRUE])
       ELSE /\ pc' = "run"
            /\ \E ord \in IterationOrders(Queued), pref \in Perms(PeerIds) :
                  SetNode(maintenance_jobs(Node, world, hints, ord, pref))

Tick ==
    /\ pc = "run"
    /\ ticker' = ~ticker
    /\ UNCHANGED <<node_rx, kill_signal, budget>>
    /\ IF kill_signal \/ was_aborted(Node)
       THEN pc' = "exited" /\ SetNode(Node)
       ELSE IF reached_stop_height(Node, hints)
       THEN /\ pc' = "exited"
            /\ SetNode([handle_stop_height_reached(Node, hints.stop_height)
                           EXCEPT !.final_check = TRUE])
       ELSE /\ pc' = "run"
            /\ \E ord \in IterationOrders(Queued), pref \in Perms(PeerIds) :
                  SetNode(maintenance_jobs(Node, world, hints, ord, pref))

\* msg = self.node_rx.recv() => try_and_log!(self.handle_message(msg, &mut hints)),
\* one message of the batch; the kill signal is read when the batch is drained
HandleMessage ==
    /\ pc = "run"
    /\ node_rx # << >>
    /\ node_rx' = Tail(node_rx)
    /\ pc' = IF kill_signal /\ Tail(node_rx) = << >> THEN "exited" ELSE "run"
    /\ UNCHANGED <<kill_signal, budget, ticker>>
    /\ LET msg == Head(node_rx)
           q == Queued \cup (IF msg.kind = "Block" THEN {msg.hash} ELSE {})
       IN  \E ord \in IterationOrders(q), pref \in Perms(PeerIds) :
               SetNode(try_and_log(handle_message(Node, world, hints, msg, ord, pref)))

\* the first place of world.delivery, from i on, whose block is asked for; 0 if
\* there is none
RECURSIVE FirstSent(_)
FirstSent(i) ==
    IF i > Len(world.delivery) THEN 0
    ELSE IF \E y \in wire : y[2] = HashBase + world.delivery[i] THEN i
    ELSE FirstSent(i + 1)

\* the GETDATA entries the peers may answer next: any of them, or, when the
\* world fixes the order of delivery, those of the first block in that order
Deliverable ==
    IF world.delivery = << >> THEN wire
    ELSE LET first == FirstSent(1)
         IN  IF first = 0 THEN {}
             ELSE {y \in wire : y[2] = HashBase + world.delivery[first]}

\* a peer answers a GETDATA entry
PeerSend ==
    /\ pc = "run"
    /\ Len(node_rx) < MaxQueue
    /\ \E x \in Deliverable :
          /\ wire' = wire \ {x}
          /\ node_rx' = Append(node_rx, [kind |-> "Block", peer |-> x[1], hash |-> x[2]])
    /\ UNCHANGED <<amvars, world, hints, blocks, inflight, last_block_request, context,
                   banscore, peers, stale, chain, workers, shutdown, kill_signal, pc,
                   applied, disorder, reapplied, final_check, overrun, log, budget, ticker>>

\* a spawn_blocking task finishes: node_sender.send(FromWorker(..))
WorkerDone ==
    /\ pc = "run"
    /\ Len(node_rx) < MaxQueue
    /\ \E x \in workers :
          /\ workers' = workers \ {x}
          /\ node_rx' = Append(node_rx, [kind |-> "FromWorker", result |-> x.result,
                                         block_hash |-> x.block_hash, height |-> x.height])
    /\ UNCHANGED <<amvars, world, hints, blocks, inflight, last_block_request, context,
                   banscore, peers, stale, chain, wire, shutdown, kill_signal, pc,
                   applied, disorder, reapplied, final_check, overrun, log, budget, ticker>>

\* REQUEST_TIMEOUT passes for a request: the peer is late, or has dropped the
\* request and will never answer it
RequestTimesOut ==
    /\ pc = "run"
    /\ budget > 0
    /\ budget' = budget - 1
    /\ \E x \in DOMAIN inflight, dropped \in BOOLEAN :
          /\ ~inflight[x].expired
          /\ inflight' = [inflight EXCEPT ![x].expired = TRUE]
          /\ wire' = IF dropped THEN wire \ {<<inflight[x].peer, x>>} ELSE wire
    /\ UNCHANGED <<amvars, world, hints, blocks, last_block_request, context, banscore,
                   peers, stale, chain, node_rx, workers, shutdown, kill_signal,
                   pc, applied, disorder, reapplied, final_check, overrun, log, ticker>>

\* ASSUME_STALE passes without a valid block
TipGoesStale ==
    /\ pc = "run"
    /\ budget > 0
    /\ ~stale
    /\ budget' = budget - 1
    /\ stale' = TRUE
    /\ UNCHANGED <<amvars, world, hints, blocks, inflight, last_block_request, context,
                   banscore, peers, chain, node_rx, workers, wire, shutdown, kill_signal,
                   pc, applied, disorder, reapplied, final_check, overrun, log, ticker>>

\* somebody sets the kill signal
Kill ==
    /\ pc = "run"
    /\ budget > 0
    /\ ~kill_signal
    /\ budget' = budget - 1
    /\ kill_signal' = TRUE
    /\ UNCHANGED <<amvars, world, hints, blocks, inflight, last_block_request, context,
                   banscore, peers, stale, chain, node_rx, workers, wire, shutdown,
                   pc, applied, disorder, reapplied, final_check, overrun, log, ticker>>

\* After run() returns the caller goes on with SyncNode, which validates the
\* blocks from validation_index + 1 up to the best header, and stops below an
\* invalid block after invalidating it.
sync_node(c, w) ==
    LET bad == {x \in w.tampered : x > c.validation_index /\ x <= c.tip}
        last == IF bad = {} THEN c.tip
                ELSE (CHOOSE x \in bad : \A y \in bad : x <= y) - 1
    IN  [c EXCEPT !.tip = last,
                  !.validation_index = IF last > @ THEN last ELSE @,
                  !.ibd = FALSE]

RunSyncNode ==
    /\ pc = "exited"
    /\ pc' = "done"
    /\ chain' = IF kill_signal THEN chain ELSE sync_node(chain, world)
    /\ UNCHANGED <<amvars, world, hints, blocks, inflight, last_block_request, context,
                   banscore, peers, stale, node_rx, workers, wire, shutdown, kill_signal,
                   applied, disorder, reapplied, final_check, overrun, log, budget, ticker>>

Next ==
    \/ Tick
    \/ HandleMessage
    \/ PeerSend
    \/ WorkerDone
    \/ RequestTimesOut
    \/ TipGoesStale
    \/ Kill
    \/ RunSyncNode

Spec == Init /\ [][Next]_vars

\* the sessions that fill the request window, with one peer connected
InitLong == InitOf(LongWorlds(LongStopHeight), {1})

\* a slow peer: it answers only once the node has stopped asking for more
SlowPeerSend ==
    /\ (~can_request_more_blocks(Node)) \/ last_block_request = hints.stop_height
    /\ PeerSend

NextLong ==
    \/ Tick
    \/ HandleMessage
    \/ SlowPeerSend
    \/ WorkerDone
    \/ RunSyncNode

SpecLong == InitLong /\ [][NextLong]_vars

\* the sessions that fill the worker pool
InitPump == InitIn(PumpWorlds(PumpStopHeight))

NextPump ==
    \/ Tick
    \/ HandleMessage
    \/ PeerSend
    \/ WorkerDone
    \/ RunSyncNode

SpecPump == InitPump /\ [][NextPump]_vars

\* The sessions nobody kills. The select loop of run() keeps polling its
\* branches, the blocking tasks finish, the peers answer what they are asked for,
\* and the caller starts SyncNode when run() returns. Tick is enabled exactly
\* when pc = "run" (it flips the ticker) and HandleMessage exactly when a message
\* waits in node_rx, so their weak fairness is written with these conditions
\* in the place of ENABLED.
NextFair ==
    \/ Tick
    \/ HandleMessage
    \/ PeerSend
    \/ WorkerDone
    \/ RequestTimesOut
    \/ TipGoesStale
    \/ RunSyncNode

InitFair == InitIn(FairWorlds(StopHeight))

SpecFair ==
    /\ InitFair
    /\ [][NextFair]_vars
    /\ ([]<>(pc # "run") \/ []<><<Tick>>_vars)
    /\ ([]<>(pc # "run" \/ node_rx = << >>) \/ []<><<HandleMessage>>_vars)
    /\ WF_vars(PeerSend)
    /\ WF_vars(WorkerDone)
    /\ WF_vars(RunSyncNode)

-----------------------------------------------------------------------------
(* Claims about SwiftSync *)

FinalCheckPasses ==
    /\ is_zero(context.agg)
    /\ context.supply <= max_supply_at_height(hints.stop_height)

MarkedAssumed ==
    /\ chain.assumed = get_block_hash(chain, hints.stop_height)
    /\ chain.assumed # NoneOpt
    /\ chain.validation_index = hints.stop_height

\* C1: when handle_stop_height_reached has run, the chain is marked assumed-valid
\* up to stop_height and IBD is off if and only if the aggregator is zero and the
\* supply is at most max_supply_at_height(stop_height); otherwise abort_height is
\* stop_height, the chain is not marked assumed-valid and IBD stays on.
C1_FinalCheckDecides ==
    (final_check /\ pc = "exited") =>
        /\ FinalCheckPasses <=> (MarkedAssumed /\ ~chain.ibd)
        /\ ~FinalCheckPasses =>
              /\ context.abort_height = Some(hints.stop_height)
              /\ chain.assumed = NoneOpt
              /\ chain.validation_index = 0
              /\ chain.ibd

\* the final check ran on a zero aggregator and an excess supply, and refused
C1_Witness ==
    /\ final_check /\ pc = "exited"
    /\ is_zero(context.agg)
    /\ context.supply > max_supply_at_height(hints.stop_height)
    /\ context.abort_height = Some(hints.stop_height)

\* C2: the final check runs only after every block of 1..=stop_height was
\* received and its worker result accumulated: once it has run, no block request
\* is in flight, no block is buffered (queued or processing), no worker runs or
\* has a result waiting, and every height is among the applied ones.
C2_FinalCheckAfterAllBlocks ==
    final_check =>
        /\ applied = 1..hints.stop_height
        /\ DOMAIN inflight = {}
        /\ DOMAIN blocks = {}
        /\ workers = {}
        /\ \A i \in 1..Len(node_rx) : node_rx[i].kind # "FromWorker"

\* the final check ran after spawned workers reported
C2_Witness ==
    /\ final_check
    /\ applied = 1..hints.stop_height
    /\ \E x \in 1..hints.stop_height : world.txs[x] = 2

\* C3: from the start of the session until its final check succeeds the
\* validation index stays 0 and no block is marked assumed valid, whatever
\* blocks arrive, results are applied, requests time out or blocks are invalid.
C3_ValidationIndexStays ==
    (pc \in {"run", "exited"} /\ ~(final_check /\ FinalCheckPasses)) =>
        /\ chain.validation_index = 0
        /\ chain.assumed = NoneOpt
        /\ chain.ibd

\* results were applied and then a block was found invalid
C3_Witness ==
    /\ pc = "exited"
    /\ applied # {}
    /\ context.abort_height # NoneOpt
    /\ chain.tip < world.tip
    /\ chain.validation_index = 0

\* the results of the given heights accumulated in ascending order
RECURSIVE InOrder(_, _)
InOrder(S, ctx) ==
    IF S = {} THEN ctx
    ELSE LET x == CHOOSE y \in S : \A z \in S : y <= z
             r == process_block_swiftsync(world, x, hinted_indexes(hints, x), ctx.salt)
         IN  InOrder(S \ {x}, accumulate(ctx, r.agg, r.amount))

\* C4: the aggregator and the supply are those of the applied results taken in
\* ascending order of height, in whatever order the results (spawned and inline)
\* were delivered and applied; so the final values do not depend on the order.
C4_OrderIndependent ==
    /\ ~reapplied
    /\ LET zero == [context EXCEPT !.agg = 0, !.supply = 0]
           canon == InOrder(applied, zero)
       IN  context.agg = canon.agg /\ context.supply = canon.supply

\* a finished session whose results were not applied in ascending order
C4_Witness ==
    /\ final_check
    /\ disorder
    /\ applied = 1..hints.stop_height

\* the best chain reaches stop_height, its blocks are valid and the hints are
\* the outputs unspent at stop_height
HonestSession ==
    /\ world.tip = world.stop_height
    /\ world.tampered = {}
    /\ world.hint_flip = {}
    /\ world.overpaid = 0

Finalized ==
    /\ pc = "done"
    /\ context.abort_height = NoneOpt
    /\ chain.validation_index = hints.stop_height
    /\ chain.tip = hints.stop_height
    /\ ~chain.ibd

\* C5: when the peers deliver every requested block of a valid best chain and
\* the hints are the outputs unspent at stop_height, the session eventually
\* finalizes: abort_height is unset, validation_index is stop_height, the best
\* block is the one at stop_height and IBD is off.
C5_HonestSessionFinalizes == HonestSession ~> Finalized

\* an honest session has finalized after a request timed out and after blocks
\* were applied out of order
C5_Witness ==
    /\ HonestSession
    /\ Finalized
    /\ final_check
    /\ disorder
    /\ budget = 0

\* every peer serves a tampered block at height h
TamperedAt(h) == world.tampered = {h} /\ world.tip = world.stop_height

FellBackBelow(h) ==
    /\ pc = "done"
    /\ context.abort_height = Some(h)
    /\ chain.assumed = NoneOpt
    /\ ~final_check
    /\ chain.validation_index = h - 1
    /\ chain.tip = h - 1
    /\ ~chain.ibd

\* C6: when the block at height h that every peer serves is tampered with, its
\* processing fails, the session sets abort_height and exits without marking
\* the chain assumed valid, SyncNode takes over, and the run ends with
\* validation_index h - 1, the best block at h - 1 and IBD off.
C6_TamperedBlockFallsBack ==
    \A h \in 1..StopHeight : TamperedAt(h) ~> FellBackBelow(h)

\* the run has ended below a tampered block that a worker task processed
\* after later blocks had been applied
C6_Witness ==
    /\ TamperedAt(2)
    /\ FellBackBelow(2)
    /\ 3 \in applied
    /\ shutdown # {}

\* C7: at most MAX_PARALLEL_WORKERS buffered blocks are ever in the processing
\* state, also inside a handler, where pump_swiftsync is re-entered from the
\* inline path or the worker-result handler.
C7_AtMostSixProcessing ==
    /\ ~overrun
    /\ processing_count(Node) <= MAX_PARALLEL_WORKERS

\* six blocks are with the workers while further blocks wait in self.blocks
C7_Witness ==
    /\ processing_count(Node) = MAX_PARALLEL_WORKERS
    /\ Cardinality(Queued) >= 2
    /\ applied # {}
    /\ ~overrun

\* the inflight requests older than REQUEST_TIMEOUT
TimedOut == {x \in DOMAIN inflight : inflight[x].expired}

\* the step is a maintenance_tick that gets as far as check_for_timeout
TimeoutChecked ==
    /\ pc = "run"
    /\ ticker' # ticker
    /\ ~(kill_signal \/ was_aborted(Node))
    /\ ~reached_stop_height(Node, hints)

\* the block is asked for anew, or has arrived
Rescheduled(x) ==
    \/ x \in DOMAIN inflight /\ ~inflight[x].expired
    \/ x \in DOMAIN blocks

\* C20: every inflight request older than REQUEST_TIMEOUT is, at the next
\* check_for_timeout, removed from the inflight set, its peer's banscore is
\* increased by 2, and the request is re-scheduled; for a block request the
\* hash becomes requestable again, so a timed-out block is eventually
\* re-requested rather than lost.
C20_TimedOutIsRerequested ==
    /\ [][TimeoutChecked =>
            /\ \A x \in TimedOut :
                  /\ x \in DOMAIN inflight'
                  /\ ~inflight'[x].expired
                  /\ <<inflight'[x].peer, x>> \in wire'
            /\ \A p \in PeerIds :
                  banscore'[p] = banscore[p]
                      + 2 * Cardinality({x \in TimedOut : inflight[x].peer = p})]_vars
    /\ \A k \in 1..StopHeight :
          (HashBase + k \in TimedOut) ~> (Rescheduled(HashBase + k) \/ pc # "run")

\* a request timed out, its peer was charged 2, the block was asked for again
\* and then arrived and was applied
C20_Witness ==
    /\ budget < world.faults
    /\ \E p \in PeerIds : banscore[p] = 2
    /\ TimedOut = {}
    /\ applied = 1..hints.stop_height

\* C21: get_blocks_to_download sends no block request when the inflight block
\* requests and the buffered blocks together number MAX_CONCURRENT_GETDATA *
\* BLOCKS_PER_GETDATA or more, so in every reachable state that sum exceeds the
\* cap by less than one GETDATA batch.
C21_RequestWindow ==
    Cardinality(DOMAIN inflight) + Cardinality(DOMAIN blocks)
        <= MAX_CONCURRENT_GETDATA * BLOCKS_PER_GETDATA - 1 + BLOCKS_PER_GETDATA

\* the window is as full as it gets, with requests in flight and blocks
\* buffered while the workers process them
C21_Witness ==
    /\ Cardinality(DOMAIN inflight) + Cardinality(DOMAIN blocks)
           = MAX_CONCURRENT_GETDATA * BLOCKS_PER_GETDATA - 1 + BLOCKS_PER_GETDATA
    /\ DOMAIN blocks # {}
    /\ workers # {}

\* C22: when a SwiftSync block fails validation with an error other than
\* InvalidProof or an orphan-type error, the address of the peer that delivered
\* it is set to Banned(now + BAN_TIME), i.e. the ban expires BAN_TIME after the
\* offence, the block is invalidated in the chain, and the peer is sent
\* Shutdown.
C22_InvalidBlockBansUntil ==
    \A x \in 1..hints.stop_height :
        (/\ pc = "run"
         /\ context.abort_height = Some(x)
         /\ x \in world.tampered) =>
            /\ chain.tip < x
            /\ shutdown # {}
            /\ \A p \in shutdown :
                  addresses[address_id(p)].state = Banned(now + BAN_TIME)

-----------------------------------------------------------------------------
(* The hints file: Hints::from_file and Hints::get_indexes, byte by byte.
   A File is its bytes and the cursor; a panic ends the program. *)

\* how many heights a hints file holds
MaxHints == 2
\* how many times get_indexes is called on one Hints
MaxReads == 3

Panic == [panic |-> TRUE]

\* File::read_exact: n bytes from the cursor on, or an error at the end of file
read_exact(file, n) ==
    IF file.pos + n > Len(file.bytes) THEN [ok |-> FALSE]
    ELSE [ok |-> TRUE,
          bytes |-> SubSeq(file.bytes, file.pos + 1, file.pos + n),
          file |-> [file EXCEPT !.pos = @ + n]]

\* u32::from_le_bytes and u64::from_le_bytes
RECURSIVE from_le_bytes(_)
from_le_bytes(bs) ==
    IF bs = << >> THEN 0 ELSE Head(bs) + 256 * from_le_bytes(Tail(bs))

\* the loop of from_file: k more (height, file_pos) pairs
RECURSIVE read_pairs(_, _, _)
read_pairs(file, k, map) ==
    IF k = 0 THEN [panic |-> FALSE, file |-> file, map |-> map]
    ELSE LET height == read_exact(file, 4)
         IN  IF ~height.ok THEN Panic
             ELSE LET file_pos == read_exact(height.file, 8)
                  IN  IF ~file_pos.ok THEN Panic
                      ELSE read_pairs(file_pos.file, k - 1,
                                      (from_le_bytes(height.bytes)
                                           :> from_le_bytes(file_pos.bytes)) @@ map)

\* from_file were its loop to run over 1..stop_height exclusive
from_file_short(file) ==
    LET magic == read_exact(file, 4)
    IN  IF ~magic.ok THEN Panic
        ELSE IF magic.bytes # <<85, 84, 88, 79>> THEN Panic
        ELSE LET ver == read_exact(magic.file, 1)
             IN  IF ~ver.ok THEN Panic
                 ELSE IF from_le_bytes(ver.bytes) # 0 THEN Panic
                 ELSE LET stop_height == read_exact(ver.file, 4)
                      IN  IF ~stop_height.ok THEN Panic
                          ELSE LET n == from_le_bytes(stop_height.bytes)
                                   pairs == read_pairs(stop_height.file,
                                                       IF n > 0 THEN n - 1 ELSE 0, << >>)
                               IN  IF pairs.panic THEN Panic
                                   ELSE [panic |-> FALSE,
                                         hints |-> [map |-> pairs.map,
                                                    file |-> pairs.file,
                                                    stop_height |-> n]]

from_file(file) ==
    LET magic == read_exact(file, 4)
    IN  IF ~magic.ok THEN Panic
        ELSE IF magic.bytes # <<85, 84, 88, 79>> THEN Panic
        ELSE LET ver == read_exact(magic.file, 1)
             IN  IF ~ver.ok THEN Panic
                 ELSE IF from_le_bytes(ver.bytes) # 0 THEN Panic
                 ELSE LET stop_height == read_exact(ver.file, 4)
                      IN  IF ~stop_height.ok THEN Panic
                          ELSE LET n == from_le_bytes(stop_height.bytes)
                                   pairs == read_pairs(stop_height.file, n, << >>)
                               IN  IF pairs.panic THEN Panic
                                   ELSE [panic |-> FALSE,
                                         hints |-> [map |-> pairs.map,
                                                    file |-> pairs.file,
                                                    stop_height |-> n]]

\* the loop of get_indexes were it to test the bits from the top of the byte
RECURSIVE read_bits_from_top(_, _, _, _, _)
read_bits_from_top(file, bit_pos, num_bits, curr_byte, unspents) ==
    IF bit_pos >= num_bits THEN [panic |-> FALSE, file |-> file, val |-> unspents]
    ELSE LET leftovers == bit_pos % 8
             single_byte_arr == IF leftovers = 0 THEN read_exact(file, 1)
                                ELSE [ok |-> TRUE, bytes |-> <<curr_byte>>, file |-> file]
         IN  IF ~single_byte_arr.ok THEN Panic
             ELSE LET byte == from_le_bytes(single_byte_arr.bytes)
                  IN  read_bits_from_top(
                          single_byte_arr.file, bit_pos + 1, num_bits, byte,
                          IF (byte \div (2 ^ (7 - leftovers))) % 2 = 1
                          THEN Append(unspents, bit_pos) ELSE unspents)

\* the loop of get_indexes: for bit_pos in 0..num_bits
RECURSIVE read_bits(_, _, _, _, _)
read_bits(file, bit_pos, num_bits, curr_byte, unspents) ==
    IF bit_pos >= num_bits THEN [panic |-> FALSE, file |-> file, val |-> unspents]
    ELSE LET leftovers == bit_pos % 8
             single_byte_arr == IF leftovers = 0 THEN read_exact(file, 1)
                                ELSE [ok |-> TRUE, bytes |-> <<curr_byte>>, file |-> file]
         IN  IF ~single_byte_arr.ok THEN Panic
             ELSE LET byte == from_le_bytes(single_byte_arr.bytes)
                  IN  read_bits(
                          single_byte_arr.file, bit_pos + 1, num_bits, byte,
                          IF (byte \div (2 ^ leftovers)) % 2 = 1
                          THEN Append(unspents, bit_pos) ELSE unspents)

\* get_indexes were it to read on from where the cursor stands
get_indexes_no_seek(h, height) ==
    IF height \notin DOMAIN h.map THEN Panic
    ELSE LET bits_arr == read_exact(h.file, 4)
         IN  IF ~bits_arr.ok THEN Panic
             ELSE LET r == read_bits(bits_arr.file, 0, from_le_bytes(bits_arr.bytes),
                                     0, << >>)
                  IN  IF r.panic THEN Panic
                      ELSE [panic |-> FALSE, hints |-> [h EXCEPT !.file = r.file],
                            val |-> r.val]

\* Hints::get_indexes: the Vec it returns and the Hints it leaves, or a panic
get_indexes(h, height) ==
    IF height \notin DOMAIN h.map THEN Panic
    ELSE LET file_pos == h.map[height]
             bits_arr == read_exact([h.file EXCEPT !.pos = file_pos], 4)
         IN  IF ~bits_arr.ok THEN Panic
             ELSE LET r == read_bits(bits_arr.file, 0, from_le_bytes(bits_arr.bytes),
                                     0, << >>)
                  IN  IF r.panic THEN Panic
                      ELSE [panic |-> FALSE, hints |-> [h EXCEPT !.file = r.file],
                            val |-> r.val]

(* The hints files read: for every height 1..N a bitmap, bit i set when output
   i is unspent. `order` is the order in which the bitmaps lie in the file. *)

BitStrings ==
    {<< >>,
     <<TRUE>>,
     <<FALSE>>,
     <<TRUE, TRUE, TRUE>>,
     <<FALSE, FALSE, FALSE, FALSE, FALSE, FALSE, FALSE, TRUE>>,
     <<TRUE, FALSE, FALSE, FALSE, FALSE, FALSE, FALSE, FALSE, TRUE>>}

\* the n little-endian bytes of a number below 2^24
le_bytes(v, n) == [i \in 1..n |-> IF i > 3 THEN 0 ELSE (v \div (256 ^ (i - 1))) % 256]

\* the bits packed into bytes, bit i in bit (i mod 8) of byte floor(i / 8)
pack(bits) ==
    [k \in 1..((Len(bits) + 7) \div 8) |->
        LET set == {j \in 0..7 : /\ 8 * (k - 1) + j < Len(bits)
                                 /\ bits[8 * (k - 1) + j + 1]}
        IN  SumOver([j \in set |-> 2 ^ j], set)]

RECURSIVE Bitmaps(_, _)
Bitmaps(table, order) ==
    IF order = << >> THEN << >>
    ELSE le_bytes(Len(table[Head(order)]), 4) \o pack(table[Head(order)])
         \o Bitmaps(table, Tail(order))

\* the place of height x in `order`
PlaceOf(order, x) == CHOOSE k \in 1..Len(order) : order[k] = x

RECURSIVE PairsFrom(_, _, _)
PairsFrom(table, order, x) ==
    IF x > Len(table) THEN << >>
    ELSE le_bytes(x, 4)
         \o le_bytes(9 + 12 * Len(table)
                         + Len(Bitmaps(table, SubSeq(order, 1, PlaceOf(order, x) - 1))), 8)
         \o PairsFrom(table, order, x + 1)

HintsFile(table, order) ==
    <<85, 84, 88, 79, 0>> \o le_bytes(Len(table), 4)
        \o PairsFrom(table, order, 1) \o Bitmaps(table, order)

HintsWorlds ==
    {[table |-> table, bytes |-> HintsFile(table, order)] :
        <<table, order>> \in
            UNION {[1..n -> BitStrings] \X Perms(1..n) : n \in 1..MaxHints}}

\* no node runs and no address manager is used: a hints file is read
InitHints ==
    /\ world \in HintsWorlds
    /\ hints = << >>
    /\ ret = NoRet
    /\ calls = 0
    /\ addresses = << >>
    /\ good_addresses = << >>
    /\ good_peers_by_service = [k \in ServiceKeys |-> << >>]
    /\ peers_by_service = [k \in ServiceKeys |-> << >>]
    /\ max_size = MAX_ADDRESSES
    /\ reachable_networks = {"IPv4"}
    /\ now = 1000
    /\ blocks = << >> /\ inflight = << >>
    /\ last_block_request = 0 /\ context = << >> /\ banscore = << >>
    /\ peers = {} /\ stale = FALSE /\ chain = << >> /\ node_rx = << >>
    /\ workers = {} /\ wire = {} /\ shutdown = {} /\ kill_signal = FALSE
    /\ pc = "none" /\ applied = {} /\ disorder = FALSE /\ reapplied = FALSE
    /\ final_check = FALSE /\ overrun = FALSE /\ log = {}
    /\ budget = 0 /\ ticker = FALSE

HintsUnchanged ==
    UNCHANGED <<addresses, good_addresses, good_peers_by_service, peers_by_service,
                max_size, reachable_networks, now, world, blocks, inflight,
                last_block_request, context, banscore, peers, stale, chain, node_rx,
                workers, wire, shutdown, kill_signal, pc, applied, disorder, reapplied,
                final_check, overrun, log, budget, ticker>>

\* Hints::from_file(File::open(..))
FromFile ==
    /\ hints = << >>
    /\ ret = NoRet
    /\ LET r == from_file([bytes |-> world.bytes, pos |-> 0])
       IN  /\ hints' = IF r.panic THEN hints ELSE r.hints
           /\ ret' = [op |-> "from_file", panic |-> r.panic]
    /\ UNCHANGED calls
    /\ HintsUnchanged

\* hints.get_indexes(height)
GetIndexes ==
    /\ hints # << >>
    /\ ~ret.panic
    /\ calls < MaxReads
    /\ calls' = calls + 1
    /\ \E height \in 0..(MaxHints + 1) :
          LET r == get_indexes(hints, height)
          IN  /\ hints' = IF r.panic THEN hints ELSE r.hints
              /\ ret' = [op |-> "get_indexes", height |-> height, panic |-> r.panic,
                         val |-> IF r.panic THEN << >> ELSE r.val]
    /\ HintsUnchanged

NextHints ==
    \/ FromFile
    \/ GetIndexes

SpecHints == InitHints /\ [][NextHints]_vars

\* the Hints a fresh Hints::from_file gives for the file of this world
FreshHints == from_file([bytes |-> world.bytes, pos |-> 0])

\* what a caller of get_indexes sees: the vector, or the panic
Answer(h, height) ==
    LET r == get_indexes(h, height)
    IN  IF r.panic THEN <<"panic">> ELSE <<"ok", r.val>>

\* bit i of the bitmap that the file holds at offset off
BitAt(off, i) == (world.bytes[off + 4 + (i \div 8) + 1] \div (2 ^ (i % 8))) % 2 = 1

IsAscending(q) == \A i, j \in 1..Len(q) : i < j => q[i] < q[j]

(* C23: Hints::from_file on a well-formed file with stop_height = N does not
   panic and yields a table of exactly N entries, one per height 1..=N, and
   get_indexes panics for height 0 and for every height greater than N (and
   for no height in 1..=N). *)
C23_TableOfStopHeight ==
    LET N == Len(world.table)
    IN  /\ ret # NoRet => /\ hints # << >>
                          /\ DOMAIN hints.map = 1..N
                          /\ Cardinality(DOMAIN hints.map) = N
                          /\ hints.stop_height = N
        /\ (ret # NoRet /\ ret.op = "from_file") => ~ret.panic
        /\ (ret # NoRet /\ ret.op = "get_indexes") =>
               (ret.panic <=> (ret.height = 0 \/ ret.height > N))

C23_Witness ==
    /\ Len(world.table) = MaxHints
    /\ ret # NoRet /\ ret.op = "get_indexes"
    /\ ret.panic /\ ret.height = MaxHints + 1
    /\ DOMAIN hints.map = 1..MaxHints

(* C24: get_indexes(h) returns the same vector every time it is called for the
   same height h in 1..=stop_height: in every state a Hints can be in, after
   any number of reads of any heights, wherever they left the cursor, the
   answer for h is the one a freshly parsed Hints gives, and the read that has
   just happened returned that answer. *)
C24_RepeatedReadsAgree ==
    (hints # << >>) =>
        /\ \A h \in 1..hints.stop_height :
               Answer(hints, h) = Answer(FreshHints.hints, h)
        /\ (ret.op = "get_indexes" /\ ~ret.panic) =>
               <<"ok", ret.val>> = Answer(FreshHints.hints, ret.height)

C24_Witness ==
    /\ hints # << >> /\ calls = MaxReads
    /\ ret.op = "get_indexes" /\ ~ret.panic
    /\ hints.stop_height = MaxHints
    \* the cursor stands past the bitmap of another height, which differs
    /\ \E h \in 1..hints.stop_height :
          /\ h # ret.height
          /\ hints.file.pos > hints.map[h]
          /\ hints.file.pos # FreshHints.hints.file.pos
          /\ Answer(hints, h) # Answer(hints, ret.height)
          /\ Answer(hints, h)[2] # << >>

(* C25: get_indexes(h) returns, in ascending order, exactly the indices
   i < num_bits whose bit i is set in the bitmap stored at the offset of height
   h (bit (i mod 8), least-significant first, of byte floor(i / 8)), which are
   the unspent outputs the file was written from, and it reads exactly
   ceil(num_bits / 8) bitmap bytes. *)
C25_IndexesAreSetBits ==
    (hints # << >> /\ ret.op = "get_indexes" /\ ~ret.panic) =>
        LET off == hints.map[ret.height]
            num_bits == from_le_bytes(SubSeq(world.bytes, off + 1, off + 4))
            set == {i \in 0..(num_bits - 1) : BitAt(off, i)}
        IN  /\ IsAscending(ret.val)
            /\ {ret.val[k] : k \in 1..Len(ret.val)} = set
            /\ set = {i \in 0..(Len(world.table[ret.height]) - 1) :
                          world.table[ret.height][i + 1]}
            /\ num_bits = Len(world.table[ret.height])
            /\ hints.file.pos = off + 4 + ((num_bits + 7) \div 8)

C25_Witness ==
    /\ hints # << >> /\ ret.op = "get_indexes" /\ ~ret.panic
    /\ ret.val = <<0, 8>>
    /\ hints.file.pos = hints.map[ret.height] + 4 + 2
    /\ hints.file.pos < Len(world.bytes)

-----------------------------------------------------------------------------
(* SyncNode run on its own: the blocks above validation_index are fetched and
   connected one by one, up to the best header *)

\* the number of blocks of the chains SyncNode is run on (NUM_BLOCKS)
SyncHeight == 9

\* chains with no, one or two invalid blocks; SyncNode starts above `start`
SyncWorlds(s) ==
    {[BaseWorld(s, Mixed(s)) EXCEPT !.tampered = t, !.faults = 0] @@ [start |-> v] :
        t \in {{}} \cup {{x} : x \in 1..s} \cup {{x, s} : x \in 1..s},
        v \in {0, 2}}

\* SyncNode were it to connect a block without validating it
sync_connect_block_blindly(n, w, peer) ==
    [n EXCEPT !.chain.validation_index = n.chain.validation_index + 1]

\* the block above validation_index arrives from `peer`: it is connected, or,
\* being invalid, it is invalidated with the headers above it and the peer banned
sync_connect_block(n, w, peer) ==
    LET height == get_validation_index(n.chain) + 1
        hash == unwrap(get_block_hash(n.chain, height))
    IN  IF height \in w.tampered
        THEN [n EXCEPT !.chain = invalidate_block(@, hash),
                       !.am = update_set_state(@, address_id(peer),
                                               Banned(now + BAN_TIME), now),
                       !.shutdown = @ \cup {peer}]
        ELSE [n EXCEPT !.chain.validation_index = height]

InitSync ==
    /\ world \in SyncWorlds(SyncHeight)
    /\ hints = << >>
    /\ blocks = << >>
    /\ inflight = << >>
    /\ last_block_request = 0
    /\ context = << >>
    /\ banscore = [p \in PeerIds |-> 0]
    /\ peers = PeerIds
    /\ stale = FALSE
    /\ chain = [tip |-> world.tip, validation_index |-> world.start,
                assumed |-> NoneOpt, ibd |-> TRUE]
    /\ node_rx = << >>
    /\ workers = {}
    /\ wire = {}
    /\ shutdown = {}
    /\ kill_signal = FALSE
    /\ pc = "sync"
    /\ applied = {}
    /\ disorder = FALSE
    /\ reapplied = FALSE
    /\ final_check = FALSE
    /\ overrun = FALSE
    /\ log = {}
    /\ budget = 0
    /\ ticker = FALSE
    /\ addresses = ConnectedAM.addresses
    /\ good_addresses = ConnectedAM.good_addresses
    /\ good_peers_by_service = ConnectedAM.good_peers_by_service
    /\ peers_by_service = ConnectedAM.peers_by_service
    /\ max_size = MAX_ADDRESSES
    /\ reachable_networks = {"IPv4"}
    /\ now = 1000
    /\ ret = NoRet
    /\ calls = 0

\* a peer serves the next block
SyncBlock ==
    /\ pc = "sync"
    /\ get_validation_index(chain) < chain.tip
    /\ \E peer \in peers \ shutdown : SetNode(sync_connect_block(Node, world, peer))
    /\ UNCHANGED <<node_rx, kill_signal, pc, budget, ticker>>

\* the best header is reached: IBD is over and the node goes on as RunningNode
SyncDone ==
    /\ pc = "sync"
    /\ get_validation_index(chain) >= chain.tip
    /\ pc' = "done"
    /\ chain' = toggle_ibd(chain, FALSE)
    /\ UNCHANGED <<amvars, world, hints, blocks, inflight, last_block_request, context,
                   banscore, peers, stale, node_rx, workers, wire, shutdown, kill_signal,
                   applied, disorder, reapplied, final_check, overrun, log, budget, ticker>>

NextSync ==
    \/ SyncBlock
    \/ SyncDone

SpecSync ==
    /\ InitSync
    /\ [][NextSync]_vars
    /\ WF_vars(SyncBlock)
    /\ WF_vars(SyncDone)

\* the invalid blocks SyncNode meets on its way up
SyncInvalid == {x \in world.tampered : x > world.start /\ x <= world.tip}

FirstInvalid == CHOOSE x \in SyncInvalid : \A y \in SyncInvalid : x <= y

BannedPeers == {p \in PeerIds : addresses[address_id(p)].state.tag = "Banned"}

\* what the run of SyncNode must have left when it is over
SyncOutcome ==
    /\ ~chain.ibd
    /\ IF SyncInvalid = {}
       THEN /\ get_validation_index(chain) = world.tip
            /\ chain.tip = world.tip
            /\ BannedPeers = {} /\ shutdown = {}
       ELSE /\ get_validation_index(chain) = FirstInvalid - 1
            /\ chain.tip = FirstInvalid - 1
            /\ get_block_hash(chain, FirstInvalid) = NoneOpt
            /\ Cardinality(BannedPeers) = 1 /\ shutdown = BannedPeers
    \* the caller of SwiftSync falls back on the same outcome
    /\ [tip |-> chain.tip, validation_index |-> chain.validation_index, ibd |-> chain.ibd]
         = LET c == sync_node([tip |-> world.tip, validation_index |-> world.start,
                               assumed |-> NoneOpt, ibd |-> TRUE], world)
           IN  [tip |-> c.tip, validation_index |-> c.validation_index, ibd |-> c.ibd]

(* C26: SyncNode validates sequentially from validation_index + 1. When it
   receives an invalid block at height h it invalidates the headers from that
   block up and bans the peer, and the run ends with validation_index = h - 1,
   the best block at height h - 1 and IBD off; with only valid blocks the run
   ends with validation_index equal to the best header height and IBD off. The
   run always ends, and until it ends IBD stays on. *)
C26_SyncNodeEndsBelowInvalid ==
    /\ [](pc = "done" => SyncOutcome)
    /\ [](pc = "sync" => chain.ibd)
    /\ <>[](pc = "done")

C26_Witness ==
    /\ pc = "done"
    /\ world.tampered = {7} /\ world.start = 0
    /\ get_validation_index(chain) = 6 /\ chain.tip = 6 /\ ~chain.ibd
    /\ Cardinality(BannedPeers) = 1

-----------------------------------------------------------------------------
(* peers.json: LocalAddress and its on-disk form DiskLocalAddress *)

\* the bit of each service flag
FlagBit(f) ==
    CASE f = "NETWORK" -> 0
      [] f = "WITNESS" -> 3
      [] f = "COMPACT_FILTERS" -> 6
      [] f = "NETWORK_LIMITED" -> 10
      [] f = "UTREEXO" -> 24
      [] f = "UTREEXO_FILTER" -> 25

AllFlags == NETWORK \cup NODE_WITNESS \cup COMPACT_FILTERS \cup NETWORK_LIMITED
                \cup UTREEXO \cup UTREEXO_FILTER

\* ServiceFlags::to_u64
to_u64(services) == SumOver([f \in services |-> 2 ^ FlagBit(f)], services)

\* ServiceFlags::from(u64)
ServiceFlags_from(v) == {f \in AllFlags : (v \div (2 ^ FlagBit(f))) % 2 = 1}

\* From<LocalAddress> for DiskLocalAddress, at time t; value.address is an AddrV2
to_disk(value, t) ==
    [address |->
        CASE value.address.fam = "Ipv4" -> [variant |-> "V4", ip |-> value.address.octets]
          [] value.address.fam = "Ipv6" -> [variant |-> "V6", ip |-> value.address.octets]
          [] value.address.fam = "Cjdns" ->
               [variant |-> "Cjdns", ip |-> value.address.octets]
          [] value.address.fam = "I2p" -> [variant |-> "I2p", ip |-> value.address.octets]
          [] value.address.fam = "TorV2" ->
               [variant |-> "OnionV2", ip |-> value.address.octets]
          [] value.address.fam = "TorV3" ->
               [variant |-> "OnionV3", ip |-> value.address.octets]
          [] value.address.fam = "Unknown" -> [variant |-> "V4", ip |-> <<127, 0, 0, 1>>],
     last_connected |-> value.last_connected,
     state |-> IF value.state = Connected THEN Tried(t) ELSE value.state,
     services |-> to_u64(value.services),
     port |-> value.port,
     id |-> Some(value.id)]

\* From<DiskLocalAddress> for LocalAddress; `random` is rand::random::<usize>()
from_disk(value, random) ==
    [address |->
        CASE value.address.variant = "V4" -> [fam |-> "Ipv4", octets |-> value.address.ip]
          [] value.address.variant = "V6" -> [fam |-> "Ipv6", octets |-> value.address.ip]
          [] value.address.variant = "Cjdns" ->
               [fam |-> "Cjdns", octets |-> value.address.ip]
          [] value.address.variant = "I2p" -> [fam |-> "I2p", octets |-> value.address.ip]
          [] value.address.variant = "OnionV2" ->
               [fam |-> "TorV2", octets |-> value.address.ip]
          [] value.address.variant = "OnionV3" ->
               [fam |-> "TorV3", octets |-> value.address.ip],
     last_connected |-> value.last_connected,
     state |-> value.state,
     services |-> ServiceFlags_from(value.services),
     port |-> value.port,
     id |-> IF value.id = NoneOpt THEN random ELSE unwrap(value.id)]

\* the addresses converted: one of every AddrV2 variant, in every state
DiskInputs ==
    {[address |-> AddrV2(a), last_connected |-> l, state |-> st, services |-> sv,
      port |-> p, id |-> i] :
        a \in {"V4a", "V6a", "CjdnsIn", "I2p", "OnionV2", "Onion", "Unknown"},
        l \in {0, 1000},
        st \in {NeverTried, Connected, Tried(1000), Banned(1000), Failed(1000)},
        sv \in {Basic \cup UTREEXO, AllFlags, NONE},
        p \in {8333, 65535},
        i \in Ids}

\* the session variables while no node runs
IdleNode ==
    /\ blocks = << >> /\ inflight = << >>
    /\ last_block_request = 0 /\ context = << >> /\ banscore = << >>
    /\ peers = {} /\ stale = FALSE /\ chain = << >> /\ node_rx = << >>
    /\ workers = {} /\ wire = {} /\ shutdown = {} /\ kill_signal = FALSE
    /\ pc = "none" /\ applied = {} /\ disorder = FALSE /\ reapplied = FALSE
    /\ final_check = FALSE /\ overrun = FALSE /\ log = {}
    /\ budget = 0 /\ ticker = FALSE

\* an address manager nothing was pushed into
IdleAM ==
    /\ addresses = << >>
    /\ good_addresses = << >>
    /\ good_peers_by_service = [k \in ServiceKeys |-> << >>]
    /\ peers_by_service = [k \in ServiceKeys |-> << >>]
    /\ max_size = MAX_ADDRESSES
    /\ reachable_networks = {"IPv4"}

\* world is the LocalAddress to be written
InitDisk ==
    /\ world \in DiskInputs
    /\ now \in {2000, 100000}
    /\ hints = << >>
    /\ ret = NoRet
    /\ calls = 0
    /\ IdleAM
    /\ IdleNode

\* dump_peers: Into::<DiskLocalAddress>::into
ToDisk ==
    /\ ret = NoRet
    /\ world \in DiskInputs
    /\ ret' = [op |-> "to_disk", disk |-> to_disk(world, now)]
    /\ UNCHANGED <<hints, calls>>
    /\ HintsUnchanged

\* start_addr_man / add_fixed_addresses: Into::<LocalAddress>::into
FromDisk ==
    /\ ret.op = "to_disk"
    /\ \E random \in Ids :
          ret' = [op |-> "from_disk", disk |-> ret.disk, val |-> from_disk(ret.disk, random)]
    /\ UNCHANGED <<hints, calls>>
    /\ HintsUnchanged

NextDisk ==
    \/ ToDisk
    \/ FromDisk

SpecDisk == InitDisk /\ [][NextDisk]_vars

(* C27: converting a LocalAddress to DiskLocalAddress and back yields an address
   equal in address, port, services, last_connected and id, for every address
   family; the state is preserved as well, except that Connected comes back as
   Tried(now). *)
C27_DiskRoundTrip ==
    (ret.op = "from_disk") =>
        /\ ret.val.address = world.address
        /\ ret.val.port = world.port
        /\ ret.val.services = world.services
        /\ ret.val.last_connected = world.last_connected
        /\ ret.val.id = world.id
        /\ ret.val.state = IF world.state = Connected THEN Tried(now) ELSE world.state

-----------------------------------------------------------------------------
(* HeaderOffset: the offset of a filter and whether it is kept, in one u64.
   A u64 is the set of its set bits, so that |, & and ! are exact at 64 bits. *)

U64Bits == 0..63

\* 0u64
ZeroU64 == {}

\* 1 << k
shl1(k) == {k}

\* the offsets written: a choice of low, middle and top bits
OffsetBits == {0, 1, 31, 32, 62, 63}

\* HeaderOffset::to_u64
HeaderOffset_to_u64(x) ==
    IF ~x.present THEN ZeroU64
    ELSE shl1(63) \cup x.offset

\* HeaderOffset::from_u64
HeaderOffset_from_u64(value) ==
    LET present == (value \cap shl1(63)) # ZeroU64
    IN  IF ~present THEN NoneOpt
        ELSE LET offset == value \cap (U64Bits \ shl1(63))
             IN  Some([present |-> present, offset |-> offset])

\* world is the HeaderOffset written: HeaderOffset::new(present, offset)
InitOffset ==
    /\ world \in [present : BOOLEAN, offset : SUBSET OffsetBits]
    /\ now = 1000
    /\ hints = << >>
    /\ ret = NoRet
    /\ calls = 0
    /\ IdleAM
    /\ IdleNode

ToU64 ==
    /\ ret = NoRet
    /\ DOMAIN world = {"present", "offset"}
    /\ ret' = [op |-> "to_u64", val |-> HeaderOffset_to_u64(world)]
    /\ UNCHANGED <<hints, calls>>
    /\ HintsUnchanged

FromU64 ==
    /\ ret.op = "to_u64"
    /\ ret' = [op |-> "from_u64", arg |-> ret.val, val |-> HeaderOffset_from_u64(ret.val)]
    /\ UNCHANGED <<hints, calls>>
    /\ HintsUnchanged

NextOffset ==
    \/ ToU64
    \/ FromU64

SpecOffset == InitOffset /\ [][NextOffset]_vars

(* C28: for every HeaderOffset x with present = true, whatever its 64-bit
   offset, from_u64(x.to_u64()) == Some(x); for every x with present = false,
   to_u64() is 0 and from_u64(0) == None; to_u64() has its top bit set iff
   present, with the offset carried in the low 63 bits. *)
C28_HeaderOffsetRoundTrip ==
    /\ (ret.op = "to_u64") =>
           /\ (63 \in ret.val) <=> world.present
           /\ ~world.present => ret.val = ZeroU64
           /\ world.present => ret.val \ shl1(63) = world.offset \ shl1(63)
    /\ (ret.op = "from_u64") =>
           IF world.present THEN ret.val = Some(world)
           ELSE ret.arg = ZeroU64 /\ ret.val = NoneOpt

-----------------------------------------------------------------------------
(* The kill signal *)

\* the sessions of SpecFair, which somebody may kill; the ticker keeps ticking
SpecKill ==
    /\ InitFair
    /\ [][Next]_vars
    /\ ([]<>(pc # "run") \/ []<><<Tick>>_vars)

(* C29: once kill_signal is true, the SwiftSync loop exits at the next
   maintenance tick, or right after the current batch of queued messages is
   drained, and it does exit; the final check is not run: a killed session
   never marks the chain assumed-valid nor switches IBD off. *)
C29_KilledSessionExits ==
    /\ [](kill_signal =>
            /\ ~final_check
            /\ chain.assumed = NoneOpt
            /\ get_validation_index(chain) = 0
            /\ chain.ibd)
    /\ [][(kill_signal /\ pc = "run" /\ ticker' # ticker) => pc' = "exited"]_vars
    /\ [][(kill_signal /\ pc = "run" /\ Len(node_rx') < Len(node_rx) /\ node_rx' = << >>)
            => pc' = "exited"]_vars
    /\ [][(kill_signal /\ pc = "run" /\ pc' = "exited")
            => (chain' = chain /\ final_check' = final_check) \/ Len(node_rx') < Len(node_rx)]_vars
    /\ (kill_signal ~> pc # "run")

\* killed when every block had been applied and the next tick would have
\* run the final check; the session has exited and the caller has gone on
C29_Witness ==
    /\ kill_signal /\ pc = "done"
    /\ applied = 1..hints.stop_height
    /\ last_block_request = hints.stop_height
    /\ unprocessed_blocks(Node) = 0
    /\ world.tampered = {}
    /\ ~final_check /\ chain.ibd

-----------------------------------------------------------------------------
(* CJDNS, Onion and I2P candidates *)

\* neither the candidate's address nor its id is in the table
IsNew(am, c) ==
    /\ \A j \in DOMAIN am.addresses : am.addresses[j].address # c.address
    /\ c.id \notin DOMAIN am.addresses

(* C30: with CJDNS in the configured reachable networks, push_addresses stores
   a new CJDNS address inside fc00::/8 that advertises the required services,
   and rejects every CJDNS address outside fc00::/8; Onion (TorV3) and I2P
   addresses of a reachable family are never rejected for routability. *)
C30_CjdnsInRangeIsStored ==
    [][(ret'.op = "push_addresses" /\ "CJDNS" \in reachable_networks) =>
         \A k \in 1..Len(ret'.addresses) :
            LET c == ret'.addresses[k]
                a == AddrV2(c.address)
                served == has(c.services, NODE_WITNESS \cup NETWORK_LIMITED)
                kept == c.id \in DOMAIN addresses' \/ c.id \in ret'.pruned
            IN  /\ (a.fam = "Cjdns" /\ a.octets[1] = 252 /\ served /\ IsNew(AM, c))
                       => kept
                /\ (a.fam = "Cjdns" /\ a.octets[1] # 252)
                       => \A j \in DOMAIN addresses' : addresses'[j].address # c.address
                /\ (a.fam \in {"TorV3", "I2p"} /\ is_net_reachable(reachable_networks, c)
                        /\ served /\ IsNew(AM, c))
                       => kept]_vars

-----------------------------------------------------------------------------
(* Aborted sessions and unsolicited blocks *)

\* the message the next HandleMessage step takes
NextMsg == Head(node_rx)

\* this step handled the message at the head of the queue
Handled == pc = "run" /\ node_rx # << >> /\ node_rx' = Tail(node_rx)

\* a worker's result for a block that is in the buffer
BufferedResult(msg) == msg.kind = "FromWorker" /\ msg.block_hash \in DOMAIN blocks

(* C31: when a worker result is a validation error, abort_height is set to
   that block's height and the session stops accumulating: from that point on
   no later worker result changes the aggregator or the supply. *)
C31_AbortStopsAccumulating ==
    /\ [][(Handled /\ BufferedResult(NextMsg) /\ ~NextMsg.result.ok)
            => context'.abort_height = Some(NextMsg.height)]_vars
    /\ [][was_aborted(Node)
            => (context'.agg = context.agg /\ context'.supply = context.supply)]_vars

\* hints.stop_height of the sessions aborted before every block is asked for
AbortStopHeight == 7

\* Chains of one-transaction blocks, longer than one GETDATA, with an invalid
\* block near the bottom. Its error is one that invalidates the block, or one
\* that does not (InvalidProof, or an error other than BlockValidation).
AbortWorlds(s) ==
    {[BaseWorld(s, AllSingle(s)) EXCEPT !.tampered = {x}, !.error = e, !.faults = 0] :
        x \in {1, 2}, e \in {"BadMerkleRoot", "InvalidProof"}}

InitAbort == InitIn(AbortWorlds(AbortStopHeight))

NextAbort ==
    \/ Tick
    \/ HandleMessage
    \/ PeerSend
    \/ RunSyncNode

SpecAbort ==
    /\ InitAbort
    /\ [][NextAbort]_vars
    /\ ([]<>(pc # "run") \/ []<><<Tick>>_vars)

\* abort_height is set
Aborted == context.abort_height # NoneOpt

(* C32: once abort_height is set, the session never marks the chain as assumed
   valid and issues no further block requests (get_blocks_to_download is a
   no-op), and the loop exits at the next maintenance tick, without the final
   check, even if last_block_request == stop_height and the buffer is empty. *)
C32_AbortedSessionExits ==
    /\ [](Aborted => chain.assumed = NoneOpt)
    /\ [][(Aborted /\ pc = "run")
            => /\ last_block_request' = last_block_request
               /\ DOMAIN inflight' \subseteq DOMAIN inflight
               /\ wire' \subseteq wire]_vars
    /\ [][(Aborted /\ pc = "run" /\ ticker' # ticker)
            => (pc' = "exited" /\ ~final_check' /\ chain' = chain)]_vars
    /\ (Aborted ~> pc # "run")

\* block 2 failed last, without being invalidated, when every block had been
\* requested and the others applied: the buffer was empty and the session has
\* exited without the final check
C32_Witness ==
    /\ Aborted /\ pc # "run"
    /\ context.abort_height = Some(2)
    /\ world.error = "InvalidProof"
    /\ last_block_request = hints.stop_height
    /\ unprocessed_blocks(Node) = 0
    /\ applied = (1..hints.stop_height) \ {2}
    /\ ~final_check /\ chain.assumed = NoneOpt


\* the message being handled is a Block
BlockMsg == Handled /\ NextMsg.kind = "Block"

\* C33: a Block message whose hash is neither buffered nor inflight adds 5 to
\* its sender's banscore and is neither buffered nor processed: the buffer,
\* agg, supply and the set of applied blocks stay as they are. A Block message
\* whose hash is already in the buffer is ignored: no banscore, the buffer,
\* the inflight map and the context stay as they are.
C33_UnsolicitedBlockIsPenalised ==
    /\ [][(BlockMsg /\ NextMsg.hash \notin DOMAIN blocks
                    /\ NextMsg.hash \notin DOMAIN inflight)
            => /\ banscore' = [banscore EXCEPT ![NextMsg.peer] = @ + 5]
               /\ blocks' = blocks
               /\ inflight' = inflight
               /\ context' = context
               /\ applied' = applied
               /\ workers' = workers]_vars
    /\ [][(BlockMsg /\ NextMsg.hash \in DOMAIN blocks)
            => /\ banscore' = banscore
               /\ blocks' = blocks
               /\ inflight' = inflight
               /\ context' = context
               /\ applied' = applied
               /\ workers' = workers]_vars

\* a peer answered a request that had been given to another peer after a
\* timeout, the block having been applied already: it was charged 5 points
C33_Witness ==
    \E p \in PeerIds :
        /\ banscore[p] = 5
        /\ \E x \in applied : x \notin DOMAIN blocks /\ x \notin DOMAIN inflight
        /\ context.abort_height = NoneOpt

\* a duplicate of a buffered block is about to be handled
C33_DuplicateQueued ==
    /\ pc = "run" /\ node_rx # << >>
    /\ NextMsg.kind = "Block" /\ NextMsg.hash \in DOMAIN blocks


\* hints.stop_height of the sessions that start before any peer is connected
RequestStopHeight == 7

\* One-transaction blocks, more than one GETDATA of them; the headers reach the
\* stop height or end one block below it.
RequestWorlds(s) ==
    {[BaseWorld(s, AllSingle(s)) EXCEPT !.tip = t, !.faults = 0] : t \in {s - 1, s}}

InitRequest == InitOf(RequestWorlds(RequestStopHeight), {})

\* PeerMessages::Ready: a peer finished its handshake and joins self.peers
PeerReady ==
    /\ pc = "run"
    /\ \E p \in PeerIds \ peers : peers' = peers \cup {p}
    /\ UNCHANGED <<amvars, world, hints, blocks, inflight, last_block_request, context,
                   banscore, stale, chain, node_rx, workers, wire, shutdown, kill_signal,
                   pc, applied, disorder, reapplied, final_check, overrun, log, budget,
                   ticker>>

NextRequest ==
    \/ Tick
    \/ HandleMessage
    \/ PeerSend
    \/ PeerReady
    \/ RunSyncNode

SpecRequest == InitRequest /\ [][NextRequest]_vars

\* the heights asked for so far: inflight, on the wire, buffered or applied
Requested ==
    {x - HashBase : x \in DOMAIN inflight \cup DOMAIN blocks \cup {y[2] : y \in wire}}
        \cup applied

\* the heights a step adds to the inflight map
NewlyInflight == {x - HashBase : x \in DOMAIN inflight' \ DOMAIN inflight}

\* C34: last_block_request never exceeds stop_height, and nothing above it was
\* ever asked for; a step that moves last_block_request moves it up by at most
\* BLOCKS_PER_GETDATA, and the heights it asks for are exactly
\* last_block_request + 1 .. last_block_request', none of them asked for
\* before; a step that asks for new heights moves last_block_request; a
\* handler that ends with no peer to ask (request_blocks fails) leaves
\* last_block_request and the inflight map as they were.
C34_RequestsAreConsecutive ==
    /\ [](last_block_request <= hints.stop_height)
    /\ [](\A x \in Requested : x \in 1..last_block_request)
    /\ [][last_block_request' # last_block_request
            => /\ last_block_request' > last_block_request
               /\ last_block_request' - last_block_request <= BLOCKS_PER_GETDATA
               /\ NewlyInflight = (last_block_request + 1)..last_block_request'
               /\ NewlyInflight \cap Requested = {}]_vars
    /\ [][last_block_request' = last_block_request => NewlyInflight = {}]_vars
    /\ [][(peers' = peers /\ peers \ shutdown' = {})
            => (last_block_request' = last_block_request /\ inflight' = inflight)]_vars

\* the first request failed for want of a peer; then blocks 1..5 were asked
\* for in one GETDATA and, once block 1 had come, blocks 6 and 7 from the
\* other peer
C34_Witness ==
    /\ "NoPeersAvailable" \in log
    /\ last_block_request = hints.stop_height
    /\ 1 \in applied
    /\ \E p, q \in PeerIds :
          /\ p # q
          /\ \A x \in 2..5 : <<p, HashBase + x>> \in wire
          /\ \A x \in 6..7 : <<q, HashBase + x>> \in wire


\* the peer that served the block of the result being handled
ServedBy(msg) == blocks[msg.block_hash].peer

\* C35: the handling of a worker's result for a buffered block applies it: a
\* success is added (its height joins the applied blocks and the supply grows
\* by its amount or more), a failure sets abort_height to its height and shuts
\* the serving peer down.
C35_WorkerResultIsApplied ==
    [][(Handled /\ BufferedResult(NextMsg))
        => IF NextMsg.result.ok
           THEN /\ NextMsg.height \in applied'
                /\ context'.supply >= context.supply + NextMsg.result.amount
           ELSE /\ context'.abort_height = Some(NextMsg.height)
                /\ ServedBy(NextMsg) \in shutdown']_vars


\* A peer sends once more a block that was asked for, of it or of another peer.
PeerResends ==
    /\ pc = "run"
    /\ budget > 0
    /\ budget' = budget - 1
    /\ Len(node_rx) < MaxQueue
    /\ \E p \in peers \ shutdown, x \in 1..last_block_request :
          node_rx' = Append(node_rx, [kind |-> "Block", peer |-> p, hash |-> HashBase + x])
    /\ UNCHANGED <<amvars, world, hints, blocks, inflight, last_block_request, context,
                   banscore, peers, stale, chain, workers, wire, shutdown, kill_signal,
                   pc, applied, disorder, reapplied, final_check, overrun, log, ticker>>

NextDup ==
    \/ Tick
    \/ HandleMessage
    \/ PeerSend
    \/ PeerResends
    \/ WorkerDone
    \/ RequestTimesOut
    \/ RunSyncNode

SpecDup == Init /\ [][NextDup]_vars

\* the hashes a step takes out of the buffer
Unbuffered == DOMAIN blocks \ DOMAIN blocks'

\* C36: no height is accumulated twice, and the supply is the sum of the
\* amounts of the applied blocks, each counted once; a block leaves the buffer only in the step that handles its worker's
\* result: the FromWorker message for it, or, for a block processed inline,
\* the handler that started it.
C36_AppliedAtMostOnce ==
    /\ [](~reapplied)
    /\ [](context.supply = SumOver([x \in applied |-> process_block_swiftsync(
                                world, x, hinted_indexes(hints, x), context.salt).amount],
                                   applied))
    /\ [][\A x \in Unbuffered :
            \/ Handled /\ NextMsg.kind = "FromWorker" /\ NextMsg.block_hash = x
            \/ txdata_len(world, x) = 1]_vars

\* a peer sent a block twice, no request having timed out: the second copy
\* cost it 5 points, and the session applied every block once and passed its
\* final check
C36_Witness ==
    /\ \E p \in PeerIds : banscore[p] = 5 /\ \A q \in PeerIds \ {p} : banscore[q] = 0
    /\ applied = 1..hints.stop_height
    /\ ~reapplied
    /\ final_check /\ chain.assumed # NoneOpt


\* timeouts and disconnections a session with coming and going peers may meet
ChurnFaults == 2

ChurnWorlds(s) == {[BaseWorld(s, Mixed(s)) EXCEPT !.faults = ChurnFaults]}

InitChurn == InitOf(ChurnWorlds(StopHeight), {})

\* PeerMessages::Disconnected: the peer leaves self.peers and its address
\* becomes Failed(now); what it was asked for stays inflight until it times
\* out, and is never answered. A peer leaves while another one stays.
PeerDisconnected ==
    /\ pc = "run"
    /\ budget > 0
    /\ budget' = budget - 1
    /\ Cardinality(peers \ shutdown) > 1
    /\ \E p \in peers :
          SetNode([Node EXCEPT
                     !.peers = @ \ {p},
                     !.am = update_set_state(@, address_id(p), Failed(now), now),
                     !.wire = {y \in @ : y[1] # p}])
    /\ UNCHANGED <<node_rx, kill_signal, pc, ticker>>

NextChurn ==
    \/ Tick
    \/ HandleMessage
    \/ PeerSend
    \/ WorkerDone
    \/ PeerReady
    \/ PeerDisconnected
    \/ RequestTimesOut
    \/ RunSyncNode

SpecChurn == InitChurn /\ [][NextChurn]_vars

\* the heights the session still knows of: applied, buffered, or inflight
\* (asked of a peer, or timed out and waiting to be asked again)
Tracked ==
    applied \cup {x - HashBase : x \in DOMAIN blocks \cup DOMAIN inflight}

\* C37: while the session is not aborted every height in
\* 1..last_block_request is applied, buffered or inflight.
C37_NoRequestedBlockIsForgotten ==
    [](context.abort_height = NoneOpt => \A x \in 1..last_block_request : x \in Tracked)

\* the first request failed for want of a peer; later a peer left, a request
\* made to it timed out and was given to the peer that stayed; every block
\* was applied and the final check passed
C37_Witness ==
    /\ "NoPeersAvailable" \in log
    /\ budget = 0
    /\ \E p \in PeerIds \ peers : banscore[p] = 2
    /\ applied = 1..hints.stop_height
    /\ context.abort_height = NoneOpt
    /\ final_check /\ chain.assumed # NoneOpt


\* C38: the peers of Spec send only what is on the wire for them, that is,
\* blocks they were asked for; the handling of a Block message raises no
\* banscore.
C38_AskedPeerIsNotPenalised ==
    [][BlockMsg => banscore'[NextMsg.peer] <= banscore[NextMsg.peer]]_vars


\* no element of the list occurs twice
NoRepeat(list) == \A i, j \in 1..Len(list) : list[i] = list[j] => i = j

\* C39: no id occurs twice in good_addresses, nor in the list of any service
\* in peers_by_service or good_peers_by_service.
C39_ListsHoldDistinctIds ==
    /\ NoRepeat(good_addresses)
    /\ \A k \in DOMAIN peers_by_service : NoRepeat(peers_by_service[k])
    /\ \A k \in DOMAIN good_peers_by_service : NoRepeat(good_peers_by_service[k])


------------------------------------------------------------------------------
(* DNS seeds *)

\* the hosts get_seeds_from_dns asks about: x1000000.<seed>, x49.<seed>,
\* x9.<seed> and the bare seed
DnsHosts == {"x1000000", "x49", "x9", "plain"}

\* what a resolver may answer for one host
IpLists == {<< >>, <<"V4a">>, <<"V4b", "V6a">>, <<"V4loop">>}

\* LocalAddress::try_from("{ip}:{port}"): the string is parsed as a SocketAddr,
\* which reads an IPv6 address only inside brackets; `id` is rand::random()
try_from(ip, t, id) ==
    IF AddrV2(ip).fam = "Ipv4"
    THEN Some([address |-> ip, last_connected |-> t, state |-> NeverTried,
               services |-> NONE, id |-> id])
    ELSE NoneOpt

\* do_lookup: the answers that parse; the random ids are base + 1, base + 2, ...
do_lookup(ips, t, base) ==
    LET parsed == [i \in 1..Len(ips) |-> try_from(ips[i], t, base + i)]
        good == SelectSeq([i \in 1..Len(ips) |-> i], LAMBDA i : parsed[i] # NoneOpt)
    IN  [k \in 1..Len(good) |-> unwrap(parsed[good[k]])]

\* x.services = ...
stamp(list, services) == [i \in DOMAIN list |-> [list[i] EXCEPT !.services = services]]

\* get_seeds_from_dns were it to stamp what push_addresses asks for
get_seeds_from_dns_limited(filters, lookup, t) ==
    LET a1 == IF has(filters, UTREEXO)
              THEN stamp(do_lookup(lookup["x1000000"], t, 0), Basic \cup UTREEXO)
              ELSE << >>
        a2 == IF has(filters, COMPACT_FILTERS)
              THEN stamp(do_lookup(lookup["x49"], t, 10), Basic \cup COMPACT_FILTERS)
              ELSE << >>
        a3 == IF has(filters, NODE_WITNESS)
              THEN stamp(do_lookup(lookup["x9"], t, 20), Basic)
              ELSE << >>
        a4 == IF filters = NONE
              THEN stamp(do_lookup(lookup["plain"], t, 30), Basic)
              ELSE << >>
    IN  a1 \o a2 \o a3 \o a4

get_seeds_from_dns(filters, lookup, t) ==
    LET a1 == IF has(filters, UTREEXO)
              THEN stamp(do_lookup(lookup["x1000000"], t, 0),
                         NETWORK \cup UTREEXO \cup NODE_WITNESS)
              ELSE << >>
        a2 == IF has(filters, COMPACT_FILTERS)
              THEN stamp(do_lookup(lookup["x49"], t, 10),
                         COMPACT_FILTERS \cup NETWORK \cup NODE_WITNESS)
              ELSE << >>
        a3 == IF has(filters, NODE_WITNESS)
              THEN stamp(do_lookup(lookup["x9"], t, 20), NETWORK \cup NODE_WITNESS)
              ELSE << >>
        a4 == IF filters = NONE
              THEN stamp(do_lookup(lookup["plain"], t, 30), NETWORK \cup NODE_WITNESS)
              ELSE << >>
    IN  a1 \o a2 \o a3 \o a4

\* world is the seed (its filters) and what the resolver answers
InitDns ==
    /\ world \in [filters : SUBSET (UTREEXO \cup COMPACT_FILTERS \cup NODE_WITNESS),
                  lookup : [DnsHosts -> IpLists]]
    /\ now = 1000
    /\ hints = << >>
    /\ ret = NoRet
    /\ calls = 0
    /\ IdleAM
    /\ IdleNode

\* the seed is asked
GetSeedsFromDns ==
    /\ ret = NoRet
    /\ ret' = [op |-> "get_seeds_from_dns",
               addresses |-> get_seeds_from_dns(world.filters, world.lookup, now)]
    /\ UNCHANGED <<hints, calls>>
    /\ HintsUnchanged

\* NodeNotification::DnsSeedAddresses(addresses): push_addresses(&addresses)
HandleDnsSeedAddresses ==
    /\ ret.op = "get_seeds_from_dns"
    /\ \E pushed \in {push_loop(AM, reachable_networks, ret.addresses)} :
          \E oldest_ids \in SortedOrders(pushed.addresses) :
              \E am \in {prune_addresses(pushed, max_size, oldest_ids)} :
                  /\ addresses' = am.addresses
                  /\ good_addresses' = am.good_addresses
                  /\ good_peers_by_service' = am.good_peers_by_service
                  /\ peers_by_service' = am.peers_by_service
                  /\ ret' = [op |-> "push_addresses", addresses |-> ret.addresses,
                             pruned |-> DOMAIN pushed.addresses \ DOMAIN am.addresses]
    /\ UNCHANGED <<max_size, reachable_networks, now, calls>>
    /\ UNCHANGED ssvars

NextDns ==
    \/ GetSeedsFromDns
    \/ HandleDnsSeedAddresses

SpecDns == InitDns /\ [][NextDns]_vars

\* the address was not met earlier in the list (the table was empty before)
FirstOfItsAddress(list, k) == \A j \in 1..(k - 1) : list[j].address # list[k].address

\* C40: once the DnsSeedAddresses notification is handled, every address of
\* the list that is routable, of a reachable family and not a repetition of
\* an earlier one is in the table (or was pruned for room).
C40_DnsSeedAddressesAreStored ==
    ret.op = "push_addresses" =>
        \A k \in 1..Len(ret.addresses) :
            LET c == ret.addresses[k]
            IN  (is_routable(c) /\ is_net_reachable(reachable_networks, c)
                    /\ FirstOfItsAddress(ret.addresses, k))
                  => (c.id \in DOMAIN addresses \/ c.id \in ret.pruned)

====
